---- MODULE Spec2Model ----
(***************************************************************************)
(* Model of the pooled WebSocket transport of usageflow-go-middleware      *)
(* (package socket: UsageFlowSocketManager and PooledConnection).          *)
(*                                                                         *)
(* Granularity: one action per critical section of the Go code.  A         *)
(* PooledConnection is an element of the sequence conns (its position is   *)
(* its identity, the Go pointer); m.connections is the sequence            *)
(* connections of such identities.  A response channel is identified with  *)
(* the caller that created it (respChan[p], capacity 1).                   *)
(* The manager is assumed to hold a non-empty apiKey.  The field           *)
(* m.connecting is only ever set while connectionMutex is held and is      *)
(* reset before the mutex is released, so it is always false when the      *)
(* mutex is acquired; it is not modelled.                                  *)
(***************************************************************************)
EXTENDS Integers, Sequences, FiniteSets, Bags, TLC

VARIABLES
    conns,        \* every PooledConnection ever created (sequence of records)
    connections,  \* m.connections: the pool list (sequence of positions in conns)
    currentIndex, \* m.currentIndex: the round-robin cursor
    chains,       \* bag of <<index, attempt, delay>>: sleeping reconnect goroutines
    pc,           \* per caller: position in SendAsync / Send / IsConnected
    op,           \* per caller: the operation last invoked
    sel,          \* per caller: the connection getConnection returned
    callId,       \* per caller: the correlation ID generated for the call
    respChan,     \* per caller: content of the call's response channel
    ret,          \* per caller: the outcome of the last call
    nextId,       \* generateID: next fresh correlation ID
    faults,       \* faults so far: transport failures and failed reconnect dials
    connectCalls, \* explicit Connect() calls made after construction
    selected,     \* SpecSelect: results of the last two getConnection calls
    api,          \* SpecApi: the middleware (UsageFlowAPI) and its requests
    gen,          \* SpecIds: the clock and the IDs generateID has returned
    lk            \* SpecOrder: per thread, its lock script and its position

vars == <<conns, connections, currentIndex, chains, pc, op, sel, callId,
          respChan, ret, nextId, faults, connectCalls, selected, api, gen, lk>>

----------------------------------------------------------------------------
(* Bounds of the model *)
PoolSize == 2
NumCallers == 2
MaxConns == 2
MaxIds == 2
MaxConnectCalls == 1
MaxFaults == 1
MaxPool == 3
MaxLoad == 3
RetryFaults == 9
MaxInstances == 2
MaxOps == 2
MaxGen == 3
MaxClock == 2
RandomBytes == 2
RandomInts == 2
NumThreads == 3

(* Program constants (durations in seconds) *)
maxReconnectTries == 5
reconnectDelay == 5
maxBackoff == 60

Procs == 1..NumCallers
Indexes == 0..(PoolSize - 1)
Ids == 1..MaxIds
Nil == 0
NoId == 0
EmptyMap == [i \in {} |-> 0]
(* decoded inbound frames: id and replyTo, each possibly empty (NoId); a   *)
(* frame naming the same ID twice behaves as the frame with that id alone  *)
Frames == {f \in [id : 0..MaxIds, replyTo : 0..MaxIds] : f.id = NoId \/ f.id # f.replyTo}
NoFrame == [id |-> 0 - 1, replyTo |-> 0 - 1]

Ready(p) == pc[p] \in {"idle", "done"}
RegisteredPcs == {"registered", "waiting"}

(* the result of a call that has not been made *)
NoResult == [fn |-> "none", ok |-> FALSE, err |-> FALSE]

(* the gin context of a request that has not started *)
NoCtx == [eventId |-> "missing", start |-> FALSE]

(* generateID before its first call: the clock at its start, no ID yet *)
NoGen == [clock |-> 0, ids |-> <<>>]

(* a goroutine that runs no locking operation *)
NoScript == [script |-> <<>>, k |-> 0]

(* the goroutines of SpecOrder *)
Threads == 1..NumThreads

(* no goroutine runs a locking operation *)
NoLk == [t \in Threads |-> NoScript]

(* the middleware before the first New(): zero values, sync.Once not done *)
NoApi ==
    [connected |-> FALSE, once |-> FALSE, instances |-> 0, updaters |-> {},
     ops |-> 0,
     at  |-> [p \in Procs |-> "idle"],
     ctx |-> [p \in Procs |-> NoCtx],
     res |-> [p \in Procs |-> NoResult],
     out |-> [p \in Procs |-> "none"]]

----------------------------------------------------------------------------
(* createConnection: the PooledConnection a successful dial produces *)
NewConn(index) ==
    [ws |-> "open", connected |-> TRUE, pendingRequests |-> 0, index |-> index,
     messageHandlers |-> EmptyMap, rl |-> "reading"]

(* variant of delete(conn.messageHandlers, id) that leaves the entry *)
KeepKey(h, id) == h

(* delete(conn.messageHandlers, id) *)
RemoveKey(h, id) == [k \in (DOMAIN h) \ {id} |-> h[k]]

(* variant of the deferred function that leaves the handler table alone *)
MarkDisconnectedOnly(cn) == [cn EXCEPT !.connected = FALSE]

(* variant of the clear that also resets the pending counter *)
ClearAndReset(cn) ==
    [cn EXCEPT !.connected = FALSE, !.messageHandlers = EmptyMap,
               !.pendingRequests = 0]

(* handleMessages' deferred function and the teardown in                   *)
(* reconnectConnectionWithRetry: mark disconnected, clear the table        *)
MarkDisconnectedAndClear(cn) ==
    [cn EXCEPT !.connected = FALSE, !.messageHandlers = EmptyMap]

(* pingConnection on a write failure, the close handler, Close():          *)
(* connected is set to false and nothing else                              *)
MarkDisconnected(cn) == [cn EXCEPT !.connected = FALSE]

----------------------------------------------------------------------------
(* getConnection *)

(* variant of the filter loop that keeps every connection of the pool *)
WholePool(cs, pool) == pool

(* the filter loop: the connected connections, in pool order *)
ConnectedOf(cs, pool) == SelectSeq(pool, LAMBDA c : cs[c].connected)

(* the least-busy scan: selected starts as connected[0] and is replaced by *)
(* every connection with strictly fewer pending requests                   *)
RECURSIVE LeastBusyFrom(_, _, _, _)
LeastBusyFrom(cs, connected, i, cur) ==
    IF i > Len(connected) THEN cur
    ELSE LeastBusyFrom(cs, connected, i + 1,
            IF cs[connected[i]].pendingRequests < cs[cur].pendingRequests
            THEN connected[i] ELSE cur)

(* variant of the least-busy scan that never replaces connected[0] *)
FirstConnected(cs, connected) == connected[1]

LeastBusy(cs, connected) == LeastBusyFrom(cs, connected, 1, connected[1])

(* the sameLoad scan *)
SameLoad(cs, connected, cur) ==
    \A i \in 1..Len(connected) :
        cs[connected[i]].pendingRequests = cs[cur].pendingRequests

(* variant of the fallback condition: round-robin as soon as some other    *)
(* connection ties with the least-busy one                                 *)
RoundRobinOnAnyTie(cs, connected, cur) ==
    \E i \in 1..Len(connected) :
        /\ connected[i] # cur
        /\ cs[connected[i]].pendingRequests = cs[cur].pendingRequests

(* the round-robin fallback applies when sameLoad && len(connected) > 1 *)
UseRoundRobin(cs, connected, cur) ==
    SameLoad(cs, connected, cur) /\ Len(connected) > 1

(* variant of the cursor update that does not advance *)
SameCursor(cur, n) == cur % n

(* m.currentIndex = (m.currentIndex + 1) % len(connected) *)
NextCursor(cur, n) == (cur + 1) % n

(* result of getConnection: the connection returned (Nil for nil) and the  *)
(* value of m.currentIndex afterwards                                      *)
getConnection(cs, pool, cursor) ==
    IF Len(pool) = 0 THEN [conn |-> Nil, currentIndex |-> cursor]
    ELSE LET connected == ConnectedOf(cs, pool) IN
         IF Len(connected) = 0 THEN [conn |-> Nil, currentIndex |-> cursor]
         ELSE LET least == LeastBusy(cs, connected) IN
              IF UseRoundRobin(cs, connected, least)
              THEN LET n == NextCursor(cursor, Len(connected)) IN
                   [conn |-> connected[n + 1], currentIndex |-> n]
              ELSE [conn |-> least, currentIndex |-> cursor]

(* IsConnected: scan the pool list, return true at the first connected one *)
RECURSIVE IsConnectedFrom(_, _, _)
IsConnectedFrom(cs, pool, i) ==
    IF i > Len(pool) THEN FALSE
    ELSE IF cs[pool[i]].connected THEN TRUE
    ELSE IsConnectedFrom(cs, pool, i + 1)

(* variant of IsConnected that looks at the first connection only *)
FirstIsConnected(cs, pool) == Len(pool) > 0 /\ cs[pool[1]].connected

IsConnected(cs, pool) == IsConnectedFrom(cs, pool, 1)

----------------------------------------------------------------------------
(* Connect: dial every slot, keep the successes sorted by index *)

Swap(s, i, j) == [s EXCEPT ![i] = s[j], ![j] = s[i]]

RECURSIVE SortInner(_, _, _, _)
SortInner(cs, s, i, j) ==
    IF j > Len(s) THEN s
    ELSE SortInner(cs, IF cs[s[i]].index > cs[s[j]].index THEN Swap(s, i, j) ELSE s,
                   i, j + 1)

RECURSIVE SortOuter(_, _, _)
SortOuter(cs, s, i) ==
    IF i >= Len(s) THEN s ELSE SortOuter(cs, SortInner(cs, s, i, i + 1), i + 1)

SortByIndex(cs, s) == SortOuter(cs, s, 1)

(* the connections created for the slots of S, appended to cs in index order *)
RECURSIVE DialAll(_, _, _)
DialAll(cs, S, i) ==
    IF i >= PoolSize THEN cs
    ELSE DialAll(IF i \in S THEN Append(cs, NewConn(i)) ELSE cs, S, i + 1)

(* the orders in which the results of the parallel dials can arrive *)
Arrivals(first, n) ==
    {s \in [1..n -> (first + 1)..(first + n)] :
        \A a, b \in 1..n : a # b => s[a] # s[b]}

(* variant of the retry scheduling that starts a goroutine for every slot *)
AllChains(S) == SetToBag({<<i, 0, reconnectDelay>> : i \in Indexes})

(* "Retry failed connections in background": one goroutine per failed slot, *)
(* sleeping reconnectDelay before reconnectConnectionWithRetry(idx, 0)      *)
FailedChains(S) == SetToBag({<<i, 0, reconnectDelay>> : i \in Indexes \ S})

----------------------------------------------------------------------------
Init ==
    /\ \E S \in SUBSET Indexes :
        /\ Cardinality(S) <= MaxConns
        /\ conns = DialAll(<<>>, S, 0)
        /\ \E arr \in Arrivals(0, Cardinality(S)) :
              connections = SortByIndex(DialAll(<<>>, S, 0), arr)
        /\ chains = FailedChains(S)
    /\ currentIndex = 0
    /\ pc = [p \in Procs |-> "idle"]
    /\ op = [p \in Procs |-> "none"]
    /\ sel = [p \in Procs |-> Nil]
    /\ callId = [p \in Procs |-> NoId]
    /\ respChan = [p \in Procs |-> NoFrame]
    /\ ret = [p \in Procs |-> "none"]
    /\ nextId = 1
    /\ faults = 0
    /\ connectCalls = 0
    /\ selected = <<>>
    /\ api = NoApi
    /\ gen = NoGen
    /\ lk = NoLk

----------------------------------------------------------------------------
(* Caller side: SendAsync / asyncSend *)

callerVars == <<pc, op, sel, callId, respChan, ret>>

(* the handler-table update of asyncSend's registration section *)
Register(cn, id, p) ==
    [cn EXCEPT !.pendingRequests = @ + 1,
               !.messageHandlers = [k \in (DOMAIN @) \cup {id} |->
                                       IF k = id THEN p ELSE @[k]]]

(* variant of the cleanup closure that decrements only while the entry is  *)
(* still in the table                                                      *)
CleanupIfRegistered(cn, id) ==
    [cn EXCEPT !.pendingRequests = IF id \in DOMAIN cn.messageHandlers
                                   THEN @ - 1 ELSE @,
               !.messageHandlers = RemoveKey(@, id)]

(* variant of the cleanup closure that also gives the connection up *)
CleanupAndDisconnect(cn, id) ==
    [cn EXCEPT !.pendingRequests = @ - 1,
               !.messageHandlers = EmptyMap,
               !.connected = FALSE]

(* variant of the cleanup closure that decrements and leaves the entry *)
CleanupCountOnly(cn, id) == [cn EXCEPT !.pendingRequests = @ - 1]

(* asyncSend's cleanup closure *)
Cleanup(cn, id) ==
    [cn EXCEPT !.pendingRequests = @ - 1,
               !.messageHandlers = RemoveKey(@, id)]

(* the call returns: its locals (conn, id, responseChan, response) are gone *)
Return(p) ==
    /\ pc' = [pc EXCEPT ![p] = "done"]
    /\ sel' = [sel EXCEPT ![p] = Nil]
    /\ callId' = [callId EXCEPT ![p] = NoId]
    /\ respChan' = [respChan EXCEPT ![p] = NoFrame]

(* SendAsync: conn := m.getConnection(); nil => "WebSocket not connected" *)
SendAsyncStart(p) ==
    /\ Ready(p)
    /\ LET r == getConnection(conns, connections, currentIndex) IN
        /\ currentIndex' = r.currentIndex
        /\ sel' = [sel EXCEPT ![p] = r.conn]
        /\ IF r.conn = Nil
           THEN /\ pc' = [pc EXCEPT ![p] = "done"]
                /\ ret' = [ret EXCEPT ![p] = "notconnected"]
           ELSE /\ pc' = [pc EXCEPT ![p] = "asyncSend"]
                /\ ret' = [ret EXCEPT ![p] = "none"]
    /\ op' = [op EXCEPT ![p] = "SendAsync"]
    /\ callId' = [callId EXCEPT ![p] = NoId]
    /\ UNCHANGED <<conns, connections, chains, respChan, nextId,
                   faults, connectCalls, selected, api, gen, lk>>

(* asyncSend, first section: if !conn.connected || conn.ws == nil (ws is   *)
(* never reset to nil, so only the flag decides)                           *)
AsyncSendCheck(p) ==
    /\ pc[p] = "asyncSend"
    /\ IF conns[sel[p]].connected
       THEN /\ pc' = [pc EXCEPT ![p] = "checked"]
            /\ UNCHANGED <<sel, callId, respChan, ret>>
       ELSE /\ ret' = [ret EXCEPT ![p] = "notconnected"]
            /\ Return(p)
    /\ UNCHANGED <<conns, connections, currentIndex, chains, op, nextId, faults, connectCalls, selected, api, gen, lk>>

(* generateID or json.Marshal returned an error: the call fails before it  *)
(* registers                                                               *)
AsyncSendPrepFail(p) ==
    /\ pc[p] = "checked"
    /\ ret' = [ret EXCEPT ![p] = "prepfail"]
    /\ Return(p)
    /\ UNCHANGED <<conns, connections, currentIndex, chains, op, nextId, faults, connectCalls, selected, api, gen, lk>>

(* generateID, make(chan, 1), then the registration section:               *)
(* pendingRequests++ ; messageHandlers[id] = responseChan                  *)
AsyncSendRegister(p) ==
    /\ pc[p] = "checked"
    /\ nextId <= MaxIds
    /\ callId' = [callId EXCEPT ![p] = nextId]
    /\ nextId' = nextId + 1
    /\ respChan' = [respChan EXCEPT ![p] = NoFrame]
    /\ conns' = [conns EXCEPT ![sel[p]] = Register(@, nextId, p)]
    /\ pc' = [pc EXCEPT ![p] = "registered"]
    /\ UNCHANGED <<connections, currentIndex, chains, op, sel, ret, faults, connectCalls, selected, api, gen, lk>>

(* conn.ws.WriteMessage returns: nil on an open transport, and the call    *)
(* goes on to its select; an error otherwise, and the call runs cleanup()  *)
(* and returns "failed to send message"                                    *)
WriteMessage(p) ==
    /\ IF conns[sel[p]].ws = "open"
       THEN /\ pc' = [pc EXCEPT ![p] = "waiting"]
            /\ UNCHANGED <<conns, sel, callId, respChan, ret>>
       ELSE /\ conns' = [conns EXCEPT ![sel[p]] = Cleanup(@, callId[p])]
            /\ ret' = [ret EXCEPT ![p] = "sendfail"]
            /\ Return(p)
    /\ UNCHANGED <<connections, currentIndex, chains, op, nextId, faults,
                   connectCalls, selected, api, gen, lk>>

(* the write section as one step: conn.mu.Lock(), WriteMessage,            *)
(* conn.mu.Unlock(), and the error branch                                  *)
AsyncSendWrite(p) ==
    /\ pc[p] = "registered"
    /\ WriteMessage(p)

(* select: case response := <-responseChan: cleanup(); return response *)
AsyncSendReceive(p) ==
    /\ pc[p] = "waiting"
    /\ respChan[p] # NoFrame
    /\ conns' = [conns EXCEPT ![sel[p]] = Cleanup(@, callId[p])]
    /\ ret' = [ret EXCEPT ![p] = "reply"]
    /\ Return(p)
    /\ UNCHANGED <<connections, currentIndex, chains, op, nextId, faults,
                   connectCalls, selected, api, gen, lk>>

(* select: case <-time.After(requestTimeout): cleanup(); return timeout.   *)
(* When the timer and the channel are both ready select takes either.      *)
AsyncSendTimeout(p) ==
    /\ pc[p] = "waiting"
    /\ conns' = [conns EXCEPT ![sel[p]] = Cleanup(@, callId[p])]
    /\ ret' = [ret EXCEPT ![p] = "timeout"]
    /\ Return(p)
    /\ UNCHANGED <<connections, currentIndex, chains, op, nextId, faults,
                   connectCalls, selected, api, gen, lk>>

----------------------------------------------------------------------------
(* Caller side: Send and IsConnected *)

SendStart(p) ==
    /\ Ready(p)
    /\ LET r == getConnection(conns, connections, currentIndex) IN
        /\ currentIndex' = r.currentIndex
        /\ sel' = [sel EXCEPT ![p] = r.conn]
        /\ IF r.conn = Nil
           THEN /\ pc' = [pc EXCEPT ![p] = "done"]
                /\ ret' = [ret EXCEPT ![p] = "notconnected"]
           ELSE /\ pc' = [pc EXCEPT ![p] = "send"]
                /\ ret' = [ret EXCEPT ![p] = "none"]
    /\ op' = [op EXCEPT ![p] = "Send"]
    /\ callId' = [callId EXCEPT ![p] = NoId]
    /\ UNCHANGED <<conns, connections, chains, respChan, nextId,
                   faults, connectCalls, selected, api, gen, lk>>

(* Send, under conn.mu: the connected check, then WriteMessage *)
SendWrite(p) ==
    /\ pc[p] = "send"
    /\ Return(p)
    /\ IF ~conns[sel[p]].connected
       THEN ret' = [ret EXCEPT ![p] = "notconnected"]
       ELSE IF conns[sel[p]].ws = "open"
       THEN ret' = [ret EXCEPT ![p] = "ok"]
       ELSE ret' = [ret EXCEPT ![p] = "sendfail"]
    /\ UNCHANGED <<conns, connections, currentIndex, chains, op, nextId,
                   faults, connectCalls, selected, api, gen, lk>>

IsConnectedCall(p) ==
    /\ Ready(p)
    /\ pc' = [pc EXCEPT ![p] = "done"]
    /\ op' = [op EXCEPT ![p] = "IsConnected"]
    /\ ret' = [ret EXCEPT ![p] =
                  IF IsConnected(conns, connections) THEN "true" ELSE "false"]
    /\ sel' = [sel EXCEPT ![p] = Nil]
    /\ callId' = [callId EXCEPT ![p] = NoId]
    /\ UNCHANGED <<conns, connections, currentIndex, chains, respChan, nextId, faults, connectCalls, selected, api, gen, lk>>

----------------------------------------------------------------------------
(* Per-connection goroutines: handleMessages (read loop) and pingConnection *)

(* variant of the match that hands an unmatched frame to a pending handler *)
HandlerIDOrPending(h, f) ==
    IF f.id # NoId /\ f.id \in DOMAIN h THEN f.id
    ELSE IF f.replyTo # NoId /\ f.replyTo \in DOMAIN h THEN f.replyTo
    ELSE IF DOMAIN h # {} THEN CHOOSE k \in DOMAIN h : TRUE
    ELSE NoId

(* the key of the handler a decoded frame is matched to (NoId: none):      *)
(* by response.ID when it is not empty, else by response.ReplyTo           *)
HandlerID(h, f) ==
    IF f.id # NoId THEN (IF f.id \in DOMAIN h THEN f.id ELSE NoId)
    ELSE IF f.replyTo # NoId /\ f.replyTo \in DOMAIN h THEN f.replyTo
    ELSE NoId

(* non-blocking send on a channel of capacity 1 *)
Deliver(chans, p, f) ==
    IF chans[p] = NoFrame THEN [chans EXCEPT ![p] = f] ELSE chans

(* variant of the deferred function that starts no reconnect goroutine *)
SpawnNone(index) == EmptyBag

(* go func() { time.Sleep(reconnectDelay); reconnectConnectionWithRetry(index, 0) } *)
Spawn(index) == SetToBag({<<index, 0, reconnectDelay>>})

(* return from handleMessages: the deferred function marks the connection  *)
(* disconnected, clears its handler table and starts a reconnect goroutine *)
ExitReadLoop(c) ==
    /\ conns' = [conns EXCEPT ![c] = [MarkDisconnectedAndClear(@) EXCEPT !.rl = "exited"]]
    /\ chains' = chains (+) Spawn(conns[c].index)

(* ReadMessage returned a frame: match it, delete the handler, deliver.    *)
(* A frame that does not decode behaves as a frame that matches nothing.   *)
ReadLoopFrame(c, f) ==
    /\ conns[c].rl = "reading"
    /\ conns[c].ws = "open"
    /\ LET h == conns[c].messageHandlers
           k == HandlerID(h, f) IN
        IF k # NoId
        THEN /\ conns' = [conns EXCEPT ![c].messageHandlers = RemoveKey(@, k)]
             /\ respChan' = Deliver(respChan, h[k], f)
        ELSE UNCHANGED <<conns, respChan>>
    /\ UNCHANGED <<connections, currentIndex, chains, pc, op, sel, callId, ret, nextId, faults, connectCalls, selected, api, gen, lk>>

(* ReadMessage returned an error on a transport that failed or was closed *)
ReadLoopError(c) ==
    /\ conns[c].rl = "reading"
    /\ conns[c].ws # "open"
    /\ ExitReadLoop(c)
    /\ UNCHANGED <<connections, currentIndex, callerVars, nextId, faults,
                   connectCalls, selected, api, gen, lk>>

(* ReadMessage returned a timeout: the read deadline (pongWait) expired on *)
(* a transport that stayed silent                                          *)
ReadLoopTimeout(c) ==
    /\ conns[c].rl = "reading"
    /\ conns[c].ws = "open"
    /\ faults < MaxFaults
    /\ faults' = faults + 1
    /\ ExitReadLoop(c)
    /\ UNCHANGED <<connections, currentIndex, callerVars, nextId,
                   connectCalls, selected, api, gen, lk>>

(* a close frame arrives: the close handler set by createConnection runs   *)
(* inside ReadMessage, which then fails                                    *)
CloseFrame(c) ==
    /\ conns[c].rl = "reading"
    /\ conns[c].ws = "open"
    /\ faults < MaxFaults
    /\ faults' = faults + 1
    /\ conns' = [conns EXCEPT ![c] = [MarkDisconnected(@) EXCEPT !.ws = "broken"]]
    /\ chains' = chains (+) Spawn(conns[c].index)
    /\ UNCHANGED <<connections, currentIndex, callerVars, nextId,
                   connectCalls, selected, api, gen, lk>>

(* pingConnection: a tick on a connected connection whose ping write fails. *)
(* (A tick on a disconnected connection ends the goroutine and a ping that  *)
(* is written changes nothing.)                                              *)
PingFail(c) ==
    /\ conns[c].connected
    /\ conns[c].ws # "open"
    /\ conns' = [conns EXCEPT ![c] = MarkDisconnected(@)]
    /\ UNCHANGED <<connections, currentIndex, chains, callerVars, nextId, faults, connectCalls, selected, api, gen, lk>>

(* environment: the transport of a connection breaks *)
NetFail(c) ==
    /\ conns[c].ws = "open"
    /\ faults < MaxFaults
    /\ faults' = faults + 1
    /\ conns' = [conns EXCEPT ![c].ws = "broken"]
    /\ UNCHANGED <<connections, currentIndex, chains, callerVars, nextId,
                   connectCalls, selected, api, gen, lk>>

----------------------------------------------------------------------------
(* Reconnector, Connect and Close *)

(* position in the pool list of the connection with this index (0: none) *)
RECURSIVE FindIndexFrom(_, _, _, _)
FindIndexFrom(cs, pool, index, i) ==
    IF i > Len(pool) THEN 0
    ELSE IF cs[pool[i]].index = index THEN i
    ELSE FindIndexFrom(cs, pool, index, i + 1)

(* variant of the search that never finds the index *)
FindIndexNone(cs, pool, index) == 0

FindIndex(cs, pool, index) == FindIndexFrom(cs, pool, index, 1)

(* existingConn teardown: ws.Close(), connected = false, handlers cleared *)
Teardown(cs, pool, index) ==
    LET i == FindIndex(cs, pool, index) IN
    IF i = 0 THEN cs
    ELSE [cs EXCEPT ![pool[i]] = [MarkDisconnectedAndClear(@) EXCEPT !.ws = "closed"]]

(* variant that always adds the connection *)
InstallAppend(cs, pool, index, c) == Append(pool, c)

(* "Replace or add the connection" *)
Install(cs, pool, index, c) ==
    LET i == FindIndex(cs, pool, index) IN
    IF i = 0 THEN Append(pool, c) ELSE [pool EXCEPT ![i] = c]

(* variant of the backoff without the cap *)
BackoffUncapped(attempt) == reconnectDelay * 2^attempt

(* backoff := reconnectDelay * 2^attempt, capped at 60 seconds *)
Backoff(attempt) ==
    LET backoff == reconnectDelay * 2^attempt IN
    IF backoff > maxBackoff THEN maxBackoff ELSE backoff

(* variant of the retry limit that allows one more attempt *)
GiveUpLate(attempt) == attempt > maxReconnectTries

(* if attempt >= maxReconnectTries { return } *)
GiveUp(attempt) == attempt >= maxReconnectTries

(* the sleeping goroutines that will call reconnectConnectionWithRetry with *)
(* these arguments                                                          *)
Sleeping(index, attempt) ==
    {ch \in BagToSet(chains) : ch[1] = index /\ ch[2] = attempt}

(* a sleep expires: reconnectConnectionWithRetry(index, attempt) *)
ReconnectAttempt(index, attempt) ==
    /\ \E ch \in Sleeping(index, attempt) :
       LET rest == chains (-) SetToBag({ch}) IN
       IF GiveUp(attempt)
       THEN /\ chains' = rest
            /\ UNCHANGED <<conns, connections, faults>>
       ELSE LET torn == Teardown(conns, connections, index) IN
            \/ /\ faults < MaxFaults         \* the dial fails
               /\ faults' = faults + 1
               /\ conns' = torn
               /\ chains' = rest (+) SetToBag({<<index, attempt + 1, Backoff(attempt)>>})
               /\ connections' = connections
            \/ /\ Len(conns) < MaxConns       \* the dial succeeds
               /\ faults' = faults
               /\ conns' = Append(torn, NewConn(index))
               /\ connections' = Install(torn, connections, index, Len(conns) + 1)
               /\ chains' = rest
    /\ UNCHANGED <<currentIndex, callerVars, nextId, connectCalls, selected, api, gen, lk>>

(* an explicit Connect() call; it returns at once when a connection is live *)
Connect ==
    /\ connectCalls < MaxConnectCalls
    /\ ~(Len(connections) > 0 /\ IsConnected(conns, connections))
    /\ connectCalls' = connectCalls + 1
    /\ \E S \in SUBSET Indexes :
        /\ Len(conns) + Cardinality(S) <= MaxConns
        /\ conns' = DialAll(conns, S, 0)
        /\ \E arr \in Arrivals(Len(conns), Cardinality(S)) :
              connections' = SortByIndex(DialAll(conns, S, 0), arr)
        /\ chains' = chains (+) FailedChains(S)
    /\ UNCHANGED <<currentIndex, callerVars, nextId, faults, selected, api, gen, lk>>

(* Close(): close every pooled transport, mark it disconnected, empty the pool *)
RECURSIVE CloseAll(_, _, _)
CloseAll(cs, pool, i) ==
    IF i > Len(pool) THEN cs
    ELSE CloseAll([cs EXCEPT ![pool[i]] = [MarkDisconnected(@) EXCEPT !.ws = "closed"]],
                  pool, i + 1)

Close ==
    /\ Len(connections) > 0
    /\ conns' = CloseAll(conns, connections, 1)
    /\ connections' = <<>>
    /\ UNCHANGED <<currentIndex, chains, callerVars, nextId,
                   faults, connectCalls, selected, api, gen, lk>>

Next ==
    \/ \E p \in Procs : SendAsyncStart(p)
    \/ \E p \in Procs : AsyncSendCheck(p)
    \/ \E p \in Procs : AsyncSendPrepFail(p)
    \/ \E p \in Procs : AsyncSendRegister(p)
    \/ \E p \in Procs : AsyncSendWrite(p)
    \/ \E p \in Procs : AsyncSendReceive(p)
    \/ \E p \in Procs : AsyncSendTimeout(p)
    \/ \E p \in Procs : SendStart(p)
    \/ \E p \in Procs : SendWrite(p)
    \/ \E p \in Procs : IsConnectedCall(p)
    \/ \E c \in DOMAIN conns, f \in Frames : ReadLoopFrame(c, f)
    \/ \E c \in DOMAIN conns : ReadLoopError(c)
    \/ \E c \in DOMAIN conns : ReadLoopTimeout(c)
    \/ \E c \in DOMAIN conns : CloseFrame(c)
    \/ \E c \in DOMAIN conns : PingFail(c)
    \/ \E c \in DOMAIN conns : NetFail(c)
    \/ \E i \in Indexes, a \in 0..maxReconnectTries : ReconnectAttempt(i, a)
    \/ Close

(* the manager after construction: callers, connection goroutines,         *)
(* reconnect goroutines and Close                                          *)
Spec == Init /\ [][Next]_vars

(* the same with explicit Connect() calls after construction *)
NextConnect == Next \/ Connect

SpecConnect == Init /\ [][NextConnect]_vars

----------------------------------------------------------------------------
(* Close() step by step: SpecClose runs Close calls one critical section    *)
(* at a time.  m.mu is write-locked by the call that is in its loop        *)
(* ("closing"); a second Close, IsConnected and the reconnector, which all  *)
(* start by locking m.mu, wait until it is released.  The read loops, the   *)
(* heartbeats and the network keep running while the lock is held.          *)

(* m.mu is write-locked by a Close call *)
MuHeld == \E q \in Procs : pc[q] = "closing"

(* variant of the loop body that closes the transport and leaves the flag *)
CloseTransportOnly(cn) == [cn EXCEPT !.ws = "closed"]

(* one iteration of Close's loop: conn.ws.Close(); conn.connected = false *)
CloseConnection(cn) == [MarkDisconnected(cn) EXCEPT !.ws = "closed"]

(* the positions of the pool list whose iteration still has an effect *)
ToClose == {i \in 1..Len(connections) :
               conns[connections[i]] # CloseConnection(conns[connections[i]])}

(* Close(): m.mu.Lock() *)
CloseStart(p) ==
    /\ Ready(p)
    /\ ~MuHeld
    /\ pc' = [pc EXCEPT ![p] = "closing"]
    /\ op' = [op EXCEPT ![p] = "Close"]
    /\ ret' = [ret EXCEPT ![p] = "none"]
    /\ UNCHANGED <<conns, connections, currentIndex, chains, sel, callId,
                   respChan, nextId, faults, connectCalls, selected, api, gen, lk>>

(* Close(): the next iteration of the loop, in pool order *)
CloseConn(p) ==
    /\ pc[p] = "closing"
    /\ ToClose # {}
    /\ LET i == CHOOSE i \in ToClose : \A j \in ToClose : i <= j IN
        conns' = [conns EXCEPT ![connections[i]] = CloseConnection(@)]
    /\ UNCHANGED <<connections, currentIndex, chains, callerVars, nextId,
                   faults, connectCalls, selected, api, gen, lk>>

(* Close(): m.connections = empty list; deferred m.mu.Unlock(); return *)
CloseReturn(p) ==
    /\ pc[p] = "closing"
    /\ ToClose = {}
    /\ connections' = <<>>
    /\ pc' = [pc EXCEPT ![p] = "done"]
    /\ ret' = [ret EXCEPT ![p] = "ok"]
    /\ UNCHANGED <<conns, currentIndex, chains, op, sel, callId, respChan,
                   nextId, faults, connectCalls, selected, api, gen, lk>>

(* IsConnected(): m.mu.RLock() first *)
IsConnectedLocked(p) == ~MuHeld /\ IsConnectedCall(p)

(* reconnectConnectionWithRetry: m.mu.RLock() first *)
ReconnectLocked(index, attempt) == ~MuHeld /\ ReconnectAttempt(index, attempt)

NextClose ==
    \/ \E p \in Procs : CloseStart(p)
    \/ \E p \in Procs : CloseConn(p)
    \/ \E p \in Procs : CloseReturn(p)
    \/ \E p \in Procs : IsConnectedLocked(p)
    \/ \E c \in DOMAIN conns : ReadLoopError(c)
    \/ \E c \in DOMAIN conns : ReadLoopTimeout(c)
    \/ \E c \in DOMAIN conns : CloseFrame(c)
    \/ \E c \in DOMAIN conns : PingFail(c)
    \/ \E c \in DOMAIN conns : NetFail(c)
    \/ \E i \in Indexes, a \in 0..maxReconnectTries : ReconnectLocked(i, a)

SpecClose == Init /\ [][NextClose]_vars

----------------------------------------------------------------------------
(* The reconnector on its own: SpecReconnect runs the connection           *)
(* goroutines, the reconnect goroutines and explicit Connect() calls, no   *)
(* callers, with RetryFaults more faults than Spec allows, enough for the  *)
(* retry chains of every slot to reach maxReconnectTries.                  *)

InitReconnect ==
    /\ \E S \in SUBSET Indexes :
        /\ Cardinality(S) <= MaxConns
        /\ conns = DialAll(<<>>, S, 0)
        /\ \E arr \in Arrivals(0, Cardinality(S)) :
              connections = SortByIndex(DialAll(<<>>, S, 0), arr)
        /\ chains = FailedChains(S)
    /\ currentIndex = 0
    /\ pc = [p \in Procs |-> "idle"]
    /\ op = [p \in Procs |-> "none"]
    /\ sel = [p \in Procs |-> Nil]
    /\ callId = [p \in Procs |-> NoId]
    /\ respChan = [p \in Procs |-> NoFrame]
    /\ ret = [p \in Procs |-> "none"]
    /\ nextId = 1
    /\ faults = 0 - RetryFaults
    /\ connectCalls = 0
    /\ selected = <<>>
    /\ api = NoApi
    /\ gen = NoGen
    /\ lk = NoLk

NextReconnect ==
    \/ \E i \in Indexes, a \in 0..maxReconnectTries : ReconnectAttempt(i, a)
    \/ Connect
    \/ \E c \in DOMAIN conns : ReadLoopError(c)
    \/ \E c \in DOMAIN conns : ReadLoopTimeout(c)
    \/ \E c \in DOMAIN conns : CloseFrame(c)
    \/ \E c \in DOMAIN conns : PingFail(c)
    \/ \E c \in DOMAIN conns : NetFail(c)

SpecReconnect == InitReconnect /\ [][NextReconnect]_vars

(* the same with the goroutines scheduled: a ReadMessage call on a failed  *)
(* or closed transport returns its error (at the latest when the read      *)
(* deadline, pongWait, expires), and a reconnect goroutine's sleep ends    *)
SpecReconnectFair ==
    /\ SpecReconnect
    /\ \A c \in 1..MaxConns : WF_vars(c \in DOMAIN conns /\ ReadLoopError(c))
    /\ \A i \in Indexes, a \in 0..maxReconnectTries :
          WF_vars(ReconnectAttempt(i, a))

----------------------------------------------------------------------------
(* The connection locks: SpecLock runs SendAsync calls with conn.mu made   *)
(* explicit.  asyncSend holds conn.mu across conn.ws.WriteMessage, which   *)
(* returns when the transport has taken the bytes; a write that stalls     *)
(* keeps the lock.  A call is "writing" from its Lock() before the write   *)
(* to the return of WriteMessage.  Every other section that locks conn.mu  *)
(* (getConnection's loops over the whole pool, asyncSend's check,          *)
(* registration and cleanup, the read loop, the reconnect teardown) is     *)
(* short and runs as one step, when the lock is free.                      *)

(* the calls that hold the lock of connection c *)
ConnMuHolders(c) == {q \in Procs : pc[q] = "writing" /\ sel[q] = c}

ConnMuFree(c) == ConnMuHolders(c) = {}

(* the connections whose lock getConnection takes: every pooled one *)
PoolLocks == {connections[i] : i \in 1..Len(connections)}

(* SendAsync: getConnection() locks each pooled connection in turn *)
GetConnectionLocked(p) ==
    /\ \A c \in PoolLocks : ConnMuFree(c)
    /\ SendAsyncStart(p)

AsyncSendCheckLocked(p) ==
    /\ pc[p] = "asyncSend"
    /\ ConnMuFree(sel[p])
    /\ AsyncSendCheck(p)

AsyncSendRegisterLocked(p) ==
    /\ pc[p] = "checked"
    /\ ConnMuFree(sel[p])
    /\ AsyncSendRegister(p)

(* conn.mu.Lock(); the call enters conn.ws.WriteMessage *)
WriteBegin(p) ==
    /\ pc[p] = "registered"
    /\ ConnMuFree(sel[p])
    /\ pc' = [pc EXCEPT ![p] = "writing"]
    /\ UNCHANGED <<conns, connections, currentIndex, chains, op, sel, callId,
                   respChan, ret, nextId, faults, connectCalls, selected, api, gen, lk>>

(* WriteMessage returns; conn.mu.Unlock(); on an error cleanup() and return *)
WriteEnd(p) ==
    /\ pc[p] = "writing"
    /\ WriteMessage(p)

(* the reply branch of the select; cleanup() locks conn.mu *)
AsyncSendReceiveLocked(p) ==
    /\ pc[p] = "waiting"
    /\ ConnMuFree(sel[p])
    /\ AsyncSendReceive(p)

(* the timeout branch of the select; cleanup() locks conn.mu *)
AsyncSendTimeoutLocked(p) ==
    /\ pc[p] = "waiting"
    /\ ConnMuFree(sel[p])
    /\ AsyncSendTimeout(p)

(* handleMessages: conn.mu.Lock() around the match *)
ReadLoopFrameLocked(c, f) == ConnMuFree(c) /\ ReadLoopFrame(c, f)

(* handleMessages: the deferred function locks conn.mu *)
ReadLoopErrorLocked(c) == ConnMuFree(c) /\ ReadLoopError(c)

(* reconnectConnectionWithRetry: the teardown locks existingConn.mu *)
ReconnectAttemptLocked(index, attempt) ==
    /\ LET i == FindIndex(conns, connections, index) IN
          i # 0 => ConnMuFree(connections[i])
    /\ ReconnectAttempt(index, attempt)

NextLock ==
    \/ \E p \in Procs : GetConnectionLocked(p)
    \/ \E p \in Procs : AsyncSendCheckLocked(p)
    \/ \E p \in Procs : AsyncSendRegisterLocked(p)
    \/ \E p \in Procs : WriteBegin(p)
    \/ \E p \in Procs : WriteEnd(p)
    \/ \E p \in Procs : AsyncSendReceiveLocked(p)
    \/ \E p \in Procs : AsyncSendTimeoutLocked(p)
    \/ \E c \in DOMAIN conns, f \in Frames : ReadLoopFrameLocked(c, f)
    \/ \E c \in DOMAIN conns : ReadLoopErrorLocked(c)
    \/ \E c \in DOMAIN conns : NetFail(c)
    \/ \E i \in Indexes, a \in 0..maxReconnectTries : ReconnectAttemptLocked(i, a)

SpecLock == Init /\ [][NextLock]_vars

----------------------------------------------------------------------------
(* The middleware: SpecApi runs UsageFlowAPI on top of the socket manager.  *)
(* The socket manager modelled is the one of the first instance New()       *)
(* creates; each caller is a goroutine of that instance: a monitored,       *)
(* non-whitelisted request passing through RequestInterceptor, a direct     *)
(* call of ExecuteFulfillRequestWithMetadata with any gin context, or a     *)
(* fetch of the config updater.  Their SendAsync calls are the manager's.  *)
(* Replies carry the error field.                                           *)

(* decoded replies: the server answers with the request's ID *)
ApiFrames == [id : Ids, replyTo : {NoId}, error : BOOLEAN]

(* the outcomes of SendAsync that are a non-nil error *)
SendErrors == {"notconnected", "timeout", "sendfail", "prepfail"}

socketVars == <<conns, connections, currentIndex, chains, sel, callId,
                respChan, nextId, faults, connectCalls, selected, gen, lk>>

(* the call's result is taken: the goroutine is ready for its next call *)
Taken(p) ==
    /\ pc' = [pc EXCEPT ![p] = "idle"]
    /\ UNCHANGED <<op, ret>>

(* variant of allocateRequest that does not read response.Error *)
AllocateLenient(r, allocationId) ==
    IF r \in SendErrors \cup {"errorreply"} THEN [id |-> "", err |-> FALSE]
    ELSE [id |-> allocationId, err |-> FALSE]

(* allocateRequest after SendAsync returned r: a send error gives ("", nil),*)
(* a reply with response.Error gives an error, any other reply gives the    *)
(* allocationId parsed from its payload ("" when it has none)               *)
AllocateResult(r, allocationId) ==
    IF r \in SendErrors THEN [id |-> "", err |-> FALSE]
    ELSE IF r = "errorreply" THEN [id |-> "", err |-> TRUE]
    ELSE [id |-> allocationId, err |-> FALSE]

(* ExecuteRequestWithMetadata: (false, err) on an error, else (true, nil) *)
ExecuteRequestResult(a) ==
    IF a.err THEN [fn |-> "request", ok |-> FALSE, err |-> TRUE]
    ELSE [fn |-> "request", ok |-> TRUE, err |-> FALSE]

(* variant of useAllocationRequest that returns false for a reply with an  *)
(* error                                                                   *)
UseStrict(r) == [ok |-> r # "errorreply", err |-> FALSE]

(* useAllocationRequest: (true, nil) on every path; response.Error is not  *)
(* read                                                                    *)
UseResult(r) == [ok |-> TRUE, err |-> FALSE]

(* ExecuteFulfillRequestWithMetadata after useAllocationRequest returned u *)
FulfillResult(u) ==
    IF u.err THEN [fn |-> "fulfill", ok |-> TRUE, err |-> FALSE]
    ELSE [fn |-> "fulfill", ok |-> u.ok, err |-> FALSE]

(* the early returns of ExecuteFulfillRequestWithMetadata *)
FulfillSkipped == [fn |-> "fulfill", ok |-> TRUE, err |-> FALSE]

(* variant of the interceptor that aborts whatever u.connected is *)
InterceptAlways(res, connected) ==
    IF res.err THEN "abort500"
    ELSE IF ~res.ok THEN "abort400"
    ELSE "next"

(* RequestInterceptor after ExecuteRequestWithMetadata returned res, with  *)
(* the value of u.connected it reads: c.Next() or an abort                 *)
Intercept(res, connected) ==
    IF res.err THEN (IF ~connected THEN "nextonly" ELSE "abort500")
    ELSE IF ~res.ok THEN (IF ~connected THEN "nextonly" ELSE "abort400")
    ELSE "next"

(* StartConfigUpdater: once.Do(...) runs its function on the first call in *)
(* the process only                                                        *)
Starts(once) == ~once

(* New(): NewUsageFlowSocketManager, connected: socketManager.IsConnected() *)
(* and StartConfigUpdater().  Only the first instance's manager and         *)
(* connected field are modelled.                                            *)
NewApi ==
    /\ api.instances < MaxInstances
    /\ LET n == api.instances + 1 IN
       api' = [api EXCEPT
                 !.instances = n,
                 !.connected = IF n = 1 THEN IsConnected(conns, connections)
                               ELSE @,
                 !.once = TRUE,
                 !.updaters = IF Starts(api.once) THEN @ \cup {n} ELSE @]
    /\ UNCHANGED <<socketVars, pc, op, ret>>

(* a request enters RequestInterceptor: ExecuteRequestWithMetadata,        *)
(* allocateRequest up to its SendAsync.  isConnected() refreshes           *)
(* u.connected; when it is false allocateRequest returns ("", nil)         *)
RequestStart(p) ==
    /\ api.instances >= 1
    /\ api.ops < MaxOps
    /\ api.at[p] = "idle"
    /\ pc[p] = "idle"
    /\ LET c == IsConnected(conns, connections) IN
       api' = [api EXCEPT
                 !.connected = c,
                 !.ops = @ + 1,
                 !.out[p] = "none",
                 !.ctx[p] = [eventId |-> IF c THEN "missing" ELSE "",
                             start |-> TRUE],
                 !.res[p] = IF c THEN NoResult
                            ELSE ExecuteRequestResult(
                                     AllocateResult("notconnected", "")),
                 !.at[p] = IF c THEN "allocate" ELSE "decide"]
    /\ UNCHANGED <<socketVars, pc, op, ret>>

(* the SendAsync call of allocateRequest, useAllocationRequest or a fetch *)
ApiSendAsync(p) ==
    /\ api.at[p] \in {"allocate", "use", "fetch"}
    /\ pc[p] = "idle"
    /\ SendAsyncStart(p)

(* asyncSend's select, reply branch: cleanup(); return response, nil.  The *)
(* outcome records whether response.Error is set                           *)
ApiReceive(p) ==
    /\ pc[p] = "waiting"
    /\ respChan[p] # NoFrame
    /\ conns' = [conns EXCEPT ![sel[p]] = Cleanup(@, callId[p])]
    /\ ret' = [ret EXCEPT ![p] =
                  IF respChan[p].error THEN "errorreply" ELSE "reply"]
    /\ Return(p)
    /\ UNCHANGED <<connections, currentIndex, chains, op, nextId, faults,
                   connectCalls, selected, api, gen, lk>>

(* allocateRequest after SendAsync, and the return of                      *)
(* ExecuteRequestWithMetadata: a send error clears u.connected; without an *)
(* error c.Set("eventId", allocationId)                                    *)
AllocateReturn(p) ==
    /\ api.at[p] = "allocate"
    /\ pc[p] = "done"
    /\ \E allocationId \in {"", "id"} :
        LET a == AllocateResult(ret[p], allocationId) IN
        /\ ret[p] # "reply" => allocationId = ""
        /\ api' = [api EXCEPT
                     !.connected = IF ret[p] \in SendErrors THEN FALSE ELSE @,
                     !.ctx[p].eventId = IF a.err THEN @ ELSE a.id,
                     !.res[p] = ExecuteRequestResult(a),
                     !.at[p] = "decide"]
    /\ Taken(p)
    /\ UNCHANGED socketVars

(* RequestInterceptor reads u.connected and either aborts or runs the      *)
(* downstream handler, c.Next(); after an error it returns, otherwise it   *)
(* goes on to ExecuteFulfillRequestWithMetadata                            *)
Decide(p) ==
    /\ api.at[p] = "decide"
    /\ LET d == Intercept(api.res[p], api.connected) IN
       api' = [api EXCEPT
                 !.out[p] = IF d = "nextonly" THEN "next" ELSE d,
                 !.ctx[p] = IF d = "next" THEN @ ELSE NoCtx,
                 !.at[p] = IF d = "next" THEN "fulfill" ELSE "idle"]
    /\ UNCHANGED <<socketVars, pc, op, ret>>

(* ExecuteFulfillRequestWithMetadata called directly, with any gin context *)
DirectFulfill(p) ==
    /\ api.instances >= 1
    /\ api.ops < MaxOps
    /\ api.at[p] = "idle"
    /\ pc[p] = "idle"
    /\ \E ev \in {"missing", "", "id"}, st \in BOOLEAN :
        api' = [api EXCEPT
                  !.ops = @ + 1,
                  !.out[p] = "none",
                  !.ctx[p] = [eventId |-> ev, start |-> st],
                  !.res[p] = NoResult,
                  !.at[p] = "fulfill"]
    /\ UNCHANGED <<socketVars, pc, op, ret>>

(* ExecuteFulfillRequestWithMetadata up to useAllocationRequest:           *)
(* isConnected(), then the eventId and usageflowStartTime lookups          *)
FulfillStart(p) ==
    /\ api.at[p] = "fulfill"
    /\ LET c == IsConnected(conns, connections)
           skip == ~c \/ api.ctx[p].eventId = "missing" \/ ~api.ctx[p].start IN
       api' = [api EXCEPT
                 !.connected = c,
                 !.res[p] = IF skip THEN FulfillSkipped ELSE NoResult,
                 !.ctx[p] = IF skip THEN NoCtx ELSE @,
                 !.at[p] = IF skip THEN "idle" ELSE "usecheck"]
    /\ UNCHANGED <<socketVars, pc, op, ret>>

(* useAllocationRequest up to its SendAsync: isConnected() again, then the *)
(* empty allocationId check                                                *)
UseStart(p) ==
    /\ api.at[p] = "usecheck"
    /\ LET c == IsConnected(conns, connections)
           skip == ~c \/ api.ctx[p].eventId = "" IN
       api' = [api EXCEPT
                 !.connected = c,
                 !.res[p] = IF skip
                            THEN FulfillResult([ok |-> TRUE, err |-> FALSE])
                            ELSE NoResult,
                 !.ctx[p] = IF skip THEN NoCtx ELSE @,
                 !.at[p] = IF skip THEN "idle" ELSE "use"]
    /\ UNCHANGED <<socketVars, pc, op, ret>>

(* useAllocationRequest after SendAsync, and the return of                 *)
(* ExecuteFulfillRequestWithMetadata: a send error clears u.connected      *)
UseReturn(p) ==
    /\ api.at[p] = "use"
    /\ pc[p] = "done"
    /\ api' = [api EXCEPT
                 !.connected = IF ret[p] \in SendErrors THEN FALSE ELSE @,
                 !.res[p] = FulfillResult(UseResult(ret[p])),
                 !.ctx[p] = NoCtx,
                 !.at[p] = "idle"]
    /\ Taken(p)
    /\ UNCHANGED socketVars

(* the config updater of the first instance fetches: go u.FetchApiConfig() *)
(* and the like, at once and on every tick                                 *)
FetchStart(p) ==
    /\ 1 \in api.updaters
    /\ api.ops < MaxOps
    /\ api.at[p] = "idle"
    /\ pc[p] = "idle"
    /\ api' = [api EXCEPT !.at[p] = "fetch",
                          !.ops = @ + 1,
                          !.out[p] = "none",
                          !.ctx[p] = NoCtx,
                          !.res[p] = NoResult]
    /\ UNCHANGED <<socketVars, pc, op, ret>>

(* the fetch returns: an error is dropped, response.Error is not read *)
FetchReturn(p) ==
    /\ api.at[p] = "fetch"
    /\ pc[p] = "done"
    /\ api' = [api EXCEPT !.at[p] = "idle"]
    /\ Taken(p)
    /\ UNCHANGED socketVars

NextApi ==
    \/ NewApi
    \/ \E p \in Procs : RequestStart(p)
    \/ \E p \in Procs : ApiSendAsync(p)
    \/ \E p \in Procs : AsyncSendCheck(p)
    \/ \E p \in Procs : AsyncSendPrepFail(p)
    \/ \E p \in Procs : AsyncSendRegister(p)
    \/ \E p \in Procs : AsyncSendWrite(p)
    \/ \E p \in Procs : ApiReceive(p)
    \/ \E p \in Procs : AsyncSendTimeout(p)
    \/ \E p \in Procs : AllocateReturn(p)
    \/ \E p \in Procs : Decide(p)
    \/ \E p \in Procs : DirectFulfill(p)
    \/ \E p \in Procs : FulfillStart(p)
    \/ \E p \in Procs : UseStart(p)
    \/ \E p \in Procs : UseReturn(p)
    \/ \E p \in Procs : FetchStart(p)
    \/ \E p \in Procs : FetchReturn(p)
    \/ \E c \in DOMAIN conns, f \in ApiFrames : ReadLoopFrame(c, f)
    \/ \E c \in DOMAIN conns : ReadLoopError(c)
    \/ \E c \in DOMAIN conns : NetFail(c)

SpecApi == Init /\ [][NextApi]_vars

-----------------------------------------------------------------------------
(* The locking of the manager on its own.  SpecOrder keeps, per            *)
(* goroutine, the operation it runs as the sequence of its mutex calls and *)
(* transport writes in program order, and the position it has reached; the *)
(* holders of every mutex follow from the positions.  Three mutexes exist: *)
(* m.connectionMutex, m.mu (an RWMutex) and one conn.mu per connection.    *)
SetupMu == <<"m.connectionMutex", 0 - 1>>
PoolMu == <<"m.mu", 0 - 1>>
ConnMu(i) == <<"conn.mu", i>>
Locks == {SetupMu, PoolMu} \cup {ConnMu(i) : i \in Indexes}

(* the order the claim speaks of *)
Rank(l) == IF l = SetupMu THEN 0 ELSE IF l = PoolMu THEN 1 ELSE 2

(* One call of a script: its kind, the mutex (or the connection written    *)
(* to), and how many of the following calls the code may skip after it, by *)
(* an early return or a branch not taken.                                  *)
Call(kind, l) == <<kind, l, {0}>>
CallThen(kind, l, skips) == <<kind, l, skips>>

(* l.Lock() ... l.Unlock() around a section that calls nothing *)
Section(l) == <<Call("Lock", l), Call("Unlock", l)>>

(* l.Lock(); ws.WriteMessage(...); l.Unlock() *)
LockedWrite(i) ==
    <<Call("Lock", ConnMu(i)), Call("WriteBegin", i), Call("WriteEnd", i),
      Call("Unlock", ConnMu(i))>>

(* for _, conn := range ... { conn.mu.Lock(); ...; conn.mu.Unlock() } over *)
(* the first n connections of the pool                                     *)
RECURSIVE EachConn(_)
EachConn(n) == IF n = 0 THEN <<>> ELSE EachConn(n - 1) \o Section(ConnMu(n - 1))

(* the same loop leaving at the first connection it finds connected *)
RECURSIVE EachConnUntil(_, _)
EachConnUntil(n, total) ==
    IF n = 0 THEN <<>>
    ELSE EachConnUntil(n - 1, total)
            \o <<Call("Lock", ConnMu(n - 1)),
                 CallThen("Unlock", ConnMu(n - 1), {0, 2 * (total - n)})>>

(* getConnection: m.mu.RLock held over its three loops; the function       *)
(* returns with no lock held, so the caller's next operation is a script   *)
(* of its own                                                              *)
getConnectionScript ==
    <<Call("RLock", PoolMu)>> \o EachConn(PoolSize) \o EachConn(PoolSize)
        \o EachConn(PoolSize) \o <<Call("RUnlock", PoolMu)>>

(* asyncSend on connection i: the connected check (which may return), the  *)
(* registration, the write, and cleanup() are four sections of conn.mu     *)
asyncSendScript(i) ==
    <<Call("Lock", ConnMu(i)), CallThen("Unlock", ConnMu(i), {0, 8})>>
        \o Section(ConnMu(i)) \o LockedWrite(i) \o Section(ConnMu(i))

(* Send on connection i: conn.mu is held from the connected check to the   *)
(* end of the write                                                        *)
SendScript(i) == LockedWrite(i)

(* IsConnected returns at the first connected connection *)
IsConnectedScript ==
    <<Call("RLock", PoolMu)>> \o EachConnUntil(PoolSize, PoolSize)
        \o <<Call("RUnlock", PoolMu)>>

(* Mutant of CloseScript: the connections are locked before the pool *)
CloseInverted ==
    <<Call("Lock", ConnMu(0)), Call("Lock", PoolMu), Call("Unlock", PoolMu),
      Call("Unlock", ConnMu(0))>>

(* Close: m.mu.Lock held while every connection is locked and closed *)
CloseScript ==
    <<Call("Lock", PoolMu)>> \o EachConn(PoolSize) \o <<Call("Unlock", PoolMu)>>

(* Connect: m.connectionMutex is held throughout.  With an empty pool      *)
(* IsConnected() is not called; when it returns true Connect returns;      *)
(* otherwise the pool is dialled (no lock taken) and installed under m.mu  *)
ConnectScript ==
    <<CallThen("Lock", SetupMu, {0, Len(IsConnectedScript)})>>
        \o SubSeq(IsConnectedScript, 1, Len(IsConnectedScript) - 1)
        \o <<CallThen("RUnlock", PoolMu, {0, 2})>>
        \o Section(PoolMu)
        \o <<Call("Unlock", SetupMu)>>

(* reconnectConnectionWithRetry for index i: m.connectionMutex throughout, *)
(* m.mu.RLock to find the old connection, its conn.mu to tear it down when *)
(* there is one, the dial, and m.mu.Lock to install when the dial          *)
(* succeeded                                                               *)
ReconnectScript(i) ==
    <<Call("Lock", SetupMu), Call("RLock", PoolMu),
      CallThen("RUnlock", PoolMu, {0, 2, 4}),
      Call("Lock", ConnMu(i)), CallThen("Unlock", ConnMu(i), {0, 2})>>
        \o Section(PoolMu)
        \o <<Call("Unlock", SetupMu)>>

(* handleMessages of connection i, one turn of the loop: the connected     *)
(* check under RLock, then either the match of a frame, or the deferred    *)
(* teardown, preceded by the close handler when a close frame arrived      *)
handleMessagesScript(i) ==
    <<Call("RLock", ConnMu(i)), Call("RUnlock", ConnMu(i)),
      Call("Lock", ConnMu(i)), CallThen("Unlock", ConnMu(i), {0, 2})>>
        \o Section(ConnMu(i))

(* pingConnection of connection i, one tick: the connected check (which    *)
(* may return), then ws.WriteMessage(PingMessage) after conn.mu has been   *)
(* released; a failed ping locks again to record it                        *)
pingConnectionScript(i) ==
    <<Call("Lock", ConnMu(i)), CallThen("Unlock", ConnMu(i), {0, 4}),
      Call("WriteBegin", i), CallThen("WriteEnd", i, {0, 2})>>
        \o Section(ConnMu(i))

Scripts ==
    {getConnectionScript, IsConnectedScript, CloseScript, ConnectScript}
        \cup {asyncSendScript(i) : i \in Indexes}
        \cup {SendScript(i) : i \in Indexes}
        \cup {ReconnectScript(i) : i \in Indexes}
        \cup {handleMessagesScript(i) : i \in Indexes}
        \cup {pingConnectionScript(i) : i \in Indexes}

Idle(t) == lk[t] = NoScript

(* the call goroutine t makes next *)
NextCall(t) == lk[t].script[lk[t].k + 1]

Wants(t, kind) == ~Idle(t) /\ NextCall(t)[1] = kind

(* what t has entered with call `kind` and not left with call `release`:   *)
(* the calls that were skipped are whole sections and cancel out           *)
Inside(t, kind, release, l) ==
    \E j \in 1..lk[t].k :
        /\ lk[t].script[j][1] = kind
        /\ lk[t].script[j][2] = l
        /\ \A h \in (j + 1)..lk[t].k :
              ~(lk[t].script[h][1] = release /\ lk[t].script[h][2] = l)

HeldW(t) == {l \in Locks : Inside(t, "Lock", "Unlock", l)}
HeldR(t) == {l \in Locks : Inside(t, "RLock", "RUnlock", l)}
Held(t) == HeldW(t) \cup HeldR(t)

(* t is inside ws.WriteMessage on the transport of connection i *)
Writing(t, i) == Inside(t, "WriteBegin", "WriteEnd", i)

(* t makes its next call and goes on, past the calls it skips; at the end  *)
(* of the script the goroutine is free for another operation               *)
Advance(t) ==
    \E d \in NextCall(t)[3] :
        lk' = [lk EXCEPT ![t] =
                  IF lk[t].k + 1 + d >= Len(lk[t].script) THEN NoScript
                  ELSE [lk[t] EXCEPT !.k = @ + 1 + d]]

orderUnchanged ==
    UNCHANGED <<conns, connections, currentIndex, chains, callerVars,
                nextId, faults, connectCalls, selected, api, gen>>

(* the loops of which createConnection starts one goroutine per connection *)
OwnGoroutine ==
    {handleMessagesScript(i) : i \in Indexes}
        \cup {pingConnectionScript(i) : i \in Indexes}

(* a goroutine starts an operation; a connection's read loop and its ping  *)
(* loop run in one goroutine each                                          *)
StartOp(t) ==
    /\ Idle(t)
    /\ \E s \in Scripts :
          /\ s \in OwnGoroutine => \A u \in Threads : lk[u].script # s
          /\ lk' = [lk EXCEPT ![t] = [script |-> s, k |-> 0]]
    /\ orderUnchanged

(* sync.Mutex.Lock / sync.RWMutex.Lock returns: nobody else holds the lock *)
LockStep(t) ==
    /\ Wants(t, "Lock")
    /\ \A u \in Threads \ {t} : NextCall(t)[2] \notin Held(u)
    /\ Advance(t)
    /\ orderUnchanged

(* sync.RWMutex.RLock returns: nobody else holds the lock for writing *)
RLockStep(t) ==
    /\ Wants(t, "RLock")
    /\ \A u \in Threads \ {t} : NextCall(t)[2] \notin HeldW(u)
    /\ Advance(t)
    /\ orderUnchanged

UnlockStep(t) ==
    /\ Wants(t, "Unlock") \/ Wants(t, "RUnlock")
    /\ Advance(t)
    /\ orderUnchanged

(* ws.WriteMessage is entered, or returns *)
WriteStep(t) ==
    /\ Wants(t, "WriteBegin") \/ Wants(t, "WriteEnd")
    /\ Advance(t)
    /\ orderUnchanged

NextOrder ==
    \E t \in Threads :
        \/ StartOp(t)
        \/ LockStep(t)
        \/ RLockStep(t)
        \/ UnlockStep(t)
        \/ WriteStep(t)

(* the manager after a construction in which every dial succeeded: the    *)
(* scripts range over a full pool                                          *)
InitOrder == Init /\ Len(connections) = PoolSize

SpecOrder == InitOrder /\ [][NextOrder]_vars

(* the goroutines t waits for before its next call returns: the holders of *)
(* the mutex it locks; for RLock the writers holding it and, as            *)
(* sync.RWMutex lets a waiting writer go first, the goroutines calling     *)
(* Lock on it                                                              *)
WaitsOn(t) ==
    IF Wants(t, "Lock")
    THEN {u \in Threads \ {t} : NextCall(t)[2] \in Held(u)}
    ELSE IF Wants(t, "RLock")
    THEN {u \in Threads \ {t} :
             \/ NextCall(t)[2] \in HeldW(u)
             \/ Wants(u, "Lock") /\ NextCall(u)[2] = NextCall(t)[2]}
    ELSE {}

(* the goroutines that get to make their next call once the goroutines     *)
(* they wait for have run on, found in at most n rounds                    *)
RECURSIVE CanRun(_)
CanRun(n) ==
    IF n = 0 THEN {t \in Threads : WaitsOn(t) = {}}
    ELSE LET before == CanRun(n - 1)
         IN  before \cup {t \in Threads : WaitsOn(t) \subseteq before}

----------------------------------------------------------------------------
(* generateID on its own: SpecIds calls generateID up to MaxGen times for  *)
(* calls that are all outstanding together, while the clock advances or    *)
(* not between the calls.  rand.Read and rand.Int are draws from small     *)
(* sets; time.Now().UnixNano() is the clock's value.                       *)

(* the values of the 8 random bytes and of rand.Int(1000000) *)
RandomParts == 1..RandomBytes
RandomNumbers == 0..(RandomInts - 1)

(* fmt.Sprintf("%s_%d_%d", randomPart, timestamp, bigInt.Int64()): the     *)
(* random part has a fixed length, so the string determines the triple     *)
generateID(randomPart, timestamp, n) == <<randomPart, timestamp, n>>

(* one generateID call *)
GenerateCall ==
    /\ Len(gen.ids) < MaxGen
    /\ \E r \in RandomParts, n \in RandomNumbers :
          gen' = [gen EXCEPT !.ids = Append(@, generateID(r, gen.clock, n))]
    /\ UNCHANGED <<conns, connections, currentIndex, chains, callerVars,
                   nextId, faults, connectCalls, selected, api, lk>>

(* the clock reaches its next value *)
ClockTick ==
    /\ gen.clock < MaxClock
    /\ gen' = [gen EXCEPT !.clock = @ + 1]
    /\ UNCHANGED <<conns, connections, currentIndex, chains, callerVars,
                   nextId, faults, connectCalls, selected, api, lk>>

NextIds == GenerateCall \/ ClockTick

SpecIds == Init /\ [][NextIds]_vars

----------------------------------------------------------------------------
(* getConnection on its own: SpecSelect draws a pool of up to MaxPool       *)
(* connections, each connected or not and with up to MaxLoad pending       *)
(* requests, and a cursor value, and calls getConnection repeatedly with   *)
(* nothing else running, so the loads do not change between the calls.    *)
(* getConnection reads only connected and pendingRequests.                 *)

PoolOf(flags, loads) ==
    [i \in 1..Len(flags) |->
        [NewConn(i - 1) EXCEPT !.connected = flags[i],
                               !.pendingRequests = loads[i]]]

InitSelect ==
    /\ \E n \in 1..MaxPool :
        /\ \E flags \in [1..n -> BOOLEAN], loads \in [1..n -> 0..MaxLoad] :
              conns = PoolOf(flags, loads)
        /\ connections = [i \in 1..n |-> i]
    /\ currentIndex \in 0..(MaxPool - 1)
    /\ chains = EmptyBag
    /\ pc = [p \in Procs |-> "idle"]
    /\ op = [p \in Procs |-> "none"]
    /\ sel = [p \in Procs |-> Nil]
    /\ callId = [p \in Procs |-> NoId]
    /\ respChan = [p \in Procs |-> NoFrame]
    /\ ret = [p \in Procs |-> "none"]
    /\ nextId = 1
    /\ faults = 0
    /\ connectCalls = 0
    /\ selected = <<>>
    /\ api = NoApi
    /\ gen = NoGen
    /\ lk = NoLk

(* the results of the last two calls, oldest first *)
Remember(hist, c) ==
    IF Len(hist) < 2 THEN Append(hist, c) ELSE <<hist[2], c>>

(* one call of getConnection *)
GetConnectionCall ==
    /\ LET r == getConnection(conns, connections, currentIndex) IN
        /\ selected' = Remember(selected, r.conn)
        /\ currentIndex' = r.currentIndex
    /\ UNCHANGED <<conns, connections, chains, callerVars, nextId, faults,
                   connectCalls, api, gen, lk>>

NextSelect == GetConnectionCall

SpecSelect == InitSelect /\ [][NextSelect]_vars

----------------------------------------------------------------------------
(* Properties of the send / correlate path, checked under Spec *)

(* a frame answers the call with this correlation ID *)
Matches(f, id) == f.id = id \/ f.replyTo = id

(* the calls registered on connection c that have not yet run cleanup() *)
RegisteredOn(c) == {p \in Procs : pc[p] \in RegisteredPcs /\ sel[p] = c}

(* C1: whatever the interleaving of concurrent SendAsync calls, the frame  *)
(* held by a call's response channel - the only thing the call can return  *)
(* as its reply - carries the call's own correlation ID as id or replyTo;  *)
(* no frame is delivered to another call's waiter.                         *)
C1_NoCrossDelivery ==
    \A p \in Procs : respChan[p] # NoFrame => Matches(respChan[p], callId[p])

(* two concurrent calls on different connections, each holding its reply *)
C1_Witness ==
    \E p, q \in Procs :
        /\ p # q /\ pc[p] = "waiting" /\ pc[q] = "waiting"
        /\ sel[p] # sel[q]
        /\ respChan[p] # NoFrame /\ respChan[q] # NoFrame

(* C2 as stated: pendingRequests always equals the size of the handler     *)
(* table, also between a delivery and the cleanup and after a clear.       *)
C2_PendingEqualsTableSize ==
    \A c \in DOMAIN conns :
        conns[c].pendingRequests = Cardinality(DOMAIN conns[c].messageHandlers)

(* C2 amended: pendingRequests equals the size of the handler table plus   *)
(* the number of calls registered on the connection whose entry is already *)
(* removed (by a delivery or by a clear) and that have not yet run cleanup. *)
C2_PendingCountsRegisteredCalls ==
    \A c \in DOMAIN conns :
        conns[c].pendingRequests =
            Cardinality(DOMAIN conns[c].messageHandlers)
            + Cardinality({p \in RegisteredOn(c) :
                              callId[p] \notin DOMAIN conns[c].messageHandlers})

(* a reply was delivered on a connected connection and its caller has not  *)
(* yet run cleanup, while another call is still registered in the table    *)
C2_Witness ==
    \E c \in DOMAIN conns, p, q \in Procs :
        /\ conns[c].connected
        /\ p \in RegisteredOn(c) /\ q \in RegisteredOn(c)
        /\ respChan[p] # NoFrame
        /\ callId[p] \notin DOMAIN conns[c].messageHandlers
        /\ callId[q] \in DOMAIN conns[c].messageHandlers

(* C3: a connection whose connected flag is false has an empty handler     *)
(* table, whichever path marked it disconnected.                           *)
C3_DisconnectedHasEmptyTable ==
    \A c \in DOMAIN conns :
        ~conns[c].connected => DOMAIN conns[c].messageHandlers = {}

(* C4: getConnection never returns a connection whose connected flag is    *)
(* false, and asyncSend never registers a waiter on a connection whose     *)
(* connected flag is false at the moment of registration.                  *)
C4_DisconnectedNeverUsed ==
    [][\A p \in Procs :
          /\ (SendAsyncStart(p) \/ SendStart(p)) /\ sel'[p] # Nil
                => conns[sel'[p]].connected
          /\ AsyncSendRegister(p) => conns[sel[p]].connected]_vars

(* C5: a call that registered its waiter returns with its correlation ID   *)
(* absent from the connection's handler table and with pendingRequests one *)
(* less than before the return, and pendingRequests changes in no other    *)
(* step than a registration (+1) and such a return (-1); a call that fails *)
(* before registering changes no connection.                               *)
C5_CleanupExactlyOnce ==
    [][\A p \in Procs :
          LET returns == pc[p] \notin {"idle", "done"} /\ pc'[p] = "done"
              c == sel[p]
          IN  /\ returns /\ pc[p] \in RegisteredPcs =>
                    /\ callId[p] \notin DOMAIN conns'[c].messageHandlers
                    /\ conns'[c].pendingRequests = conns[c].pendingRequests - 1
                    /\ \A d \in DOMAIN conns \ {c} :
                          conns'[d].pendingRequests = conns[d].pendingRequests
              /\ returns /\ pc[p] \notin RegisteredPcs => conns' = conns
              /\ AsyncSendRegister(p) =>
                    conns'[c].pendingRequests = conns[c].pendingRequests + 1
              /\ (\A q \in Procs : pc'[q] = pc[q]) =>
                    \A d \in DOMAIN conns :
                       conns'[d].pendingRequests = conns[d].pendingRequests]_vars

(* a call has returned a timeout while the other call is still registered  *)
(* on the same connection                                                  *)
C5_Witness ==
    \E p, q \in Procs :
        /\ op[p] = "SendAsync" /\ pc[p] = "done" /\ ret[p] = "timeout"
        /\ pc[q] = "waiting"
        /\ conns[sel[q]].pendingRequests = 1
        /\ DOMAIN conns[sel[q]].messageHandlers = {callId[q]}

(* no connection of the pool list is connected *)
NoLiveConnection ==
    \A i \in 1..Len(connections) : ~conns[connections[i]].connected

(* C6: SendAsync called while no connection is live returns the            *)
(* not-connected error in that very step: no correlation ID is generated,  *)
(* no waiter registered, no pendingRequests changed, no frame written (the *)
(* call never reaches the registration or the write section).              *)
C6_NoConnectionFailsImmediately ==
    [][\A p \in Procs :
          SendAsyncStart(p) /\ NoLiveConnection =>
              /\ pc'[p] = "done" /\ ret'[p] = "notconnected"
              /\ callId'[p] = NoId
              /\ nextId' = nextId
              /\ conns' = conns]_vars

(* SendAsync returned not-connected while the pool list holds only         *)
(* disconnected connections                                                *)
C6_Witness ==
    \E p \in Procs :
        /\ op[p] = "SendAsync" /\ pc[p] = "done" /\ ret[p] = "notconnected"
        /\ Len(connections) > 0
        /\ NoLiveConnection

(* C10: IsConnected returns true exactly when some connection of the pool  *)
(* list has its connected flag set.                                        *)
C10_IsConnectedIffSomeLive ==
    [][\A p \in Procs :
          IsConnectedCall(p) =>
              (ret'[p] = "true" <=> ~NoLiveConnection)
              /\ ret'[p] \in {"true", "false"}]_vars

(* IsConnected answered true for a pool whose first connection is          *)
(* disconnected and whose second is connected                              *)
C10_Witness ==
    \E p \in Procs :
        /\ op[p] = "IsConnected" /\ ret[p] = "true"
        /\ Len(connections) = 2
        /\ ~conns[connections[1]].connected
        /\ conns[connections[2]].connected

----------------------------------------------------------------------------
(* Properties of getConnection, checked under SpecSelect *)

(* the connected connections of the pool list *)
Live == {connections[i] : i \in 1..Len(connections)} \cap
            {c \in DOMAIN conns : conns[c].connected}

Load(c) == conns[c].pendingRequests

(* the connected connections with the minimum number of pending requests *)
Tied == {c \in Live : \A d \in Live : Load(c) <= Load(d)}

(* the pending loads of the pool, in pool order *)
Loads == [i \in 1..Len(connections) |-> Load(connections[i])]

(* C7: getConnection returns a connected connection whose pendingRequests  *)
(* is minimal among the connected connections (and nil only when there is  *)
(* none); with loads [3,1,1] it returns one of the two with load 1.        *)
C7_ReturnsLeastBusy ==
    \A k \in 1..Len(selected) :
        IF Live = {} THEN selected[k] = Nil ELSE selected[k] \in Tied

(* loads [3,1,1], all connected, and a connection with load 1 was returned *)
C7_Witness ==
    /\ Loads = <<3, 1, 1>>
    /\ Cardinality(Live) = 3
    /\ Len(selected) > 0
    /\ Load(selected[Len(selected)]) = 1

(* C8 as stated: when several but not all connected connections tie for    *)
(* the minimum, successive calls rotate among the tied connections, so two *)
(* consecutive calls do not return the same connection.                    *)
C8_RotatesAmongTied ==
    Len(selected) = 2 /\ Cardinality(Tied) > 1 /\ Tied # Live
        => selected[1] # selected[2]

(* C8 amended: when several but not all connected connections tie for the  *)
(* minimum, every call returns the tied connection that comes first in the *)
(* pool list and leaves the round-robin cursor unchanged.                  *)
C8_FirstTiedEveryTime ==
    [][GetConnectionCall /\ Cardinality(Tied) > 1 /\ Tied # Live =>
          /\ currentIndex' = currentIndex
          /\ \E i \in 1..Len(connections) :
                /\ selected'[Len(selected')] = connections[i]
                /\ connections[i] \in Tied
                /\ \A j \in 1..(i - 1) : connections[j] \notin Tied]_vars

(* two calls made with loads [3,1,1], all connected: both returned the     *)
(* second connection of the pool list                                      *)
C8_Witness ==
    /\ Loads = <<3, 1, 1>>
    /\ Cardinality(Live) = 3
    /\ selected = <<connections[2], connections[2]>>

(* C9: with two or more connected connections, all with the same           *)
(* pendingRequests, and no change between the calls, two consecutive       *)
(* getConnection calls return different connections.                       *)
C9_EqualLoadsAlternate ==
    Len(selected) = 2 /\ Cardinality(Live) > 1 /\ Tied = Live
        => selected[1] # selected[2]

(* two calls made on two connected connections of load 1 and one           *)
(* disconnected connection returned two different connections              *)
C9_Witness ==
    /\ Len(selected) = 2
    /\ Cardinality(Live) = 2
    /\ Len(connections) = 3
    /\ \A c \in Live : Load(c) = 1
    /\ selected[1] # selected[2]

----------------------------------------------------------------------------
(* Properties of Close, checked under SpecClose *)

(* a Close call has returned *)
CloseReturned == \E p \in Procs : op[p] = "Close" /\ pc[p] = "done"

C12_CloseIsTerminal ==
    CloseReturned =>
        /\ connections = <<>>
        /\ \A c \in DOMAIN conns : ~conns[c].connected

----------------------------------------------------------------------------
(* Properties of failure handling, checked under Spec *)

(* the calls in flight on connection c: selected it and not yet returned *)
InFlightOn(c) == {p \in Procs : sel[p] = c}

(* the read loop of connection c returns in this step *)
ReadFails(c) == conns[c].rl = "reading" /\ conns'[c].rl = "exited"

Generated == 1..(nextId - 1)

(* frame f answers a call whose waiter is no longer registered on c: it    *)
(* names a generated ID, and neither its id nor its replyTo is a key of    *)
(* the handler table of c                                                  *)
LateReply(c, f) ==
    /\ {f.id, f.replyTo} \cap Generated # {}
    /\ {f.id, f.replyTo} \cap DOMAIN conns[c].messageHandlers = {}

(* C14: a reply that arrives after its caller's timeout has deregistered   *)
(* the waiter is discarded: it is matched to no handler, and the step that *)
(* reads it delivers it to no channel and changes no handler table, no     *)
(* pendingRequests and no connected flag.                                  *)
C14_LateReplyDiscarded ==
    /\ [](\A c \in DOMAIN conns, f \in Frames :
            LateReply(c, f) => HandlerID(conns[c].messageHandlers, f) = NoId)
    /\ [][\A c \in DOMAIN conns, f \in Frames :
            ReadLoopFrame(c, f) /\ LateReply(c, f) =>
                conns' = conns /\ respChan' = respChan]_vars

(* a call has timed out, and the connection it can still get a reply on is *)
(* reading with another call waiting on it                                 *)
C14_Witness ==
    \E p, q \in Procs, c \in DOMAIN conns :
        /\ op[q] = "SendAsync" /\ pc[q] = "done" /\ ret[q] = "timeout"
        /\ pc[p] = "waiting" /\ sel[p] = c /\ respChan[p] = NoFrame
        /\ callId[p] \in DOMAIN conns[c].messageHandlers
        /\ conns[c].rl = "reading" /\ conns[c].ws = "open"
        /\ \E f \in Frames : LateReply(c, f)

----------------------------------------------------------------------------
(* Properties of the reconnector and of Connect, checked under             *)
(* SpecReconnect                                                           *)

(* no reconnect goroutine is left and no connection has a running read     *)
(* loop: every retry chain has given up and nothing can start a new one    *)
Exhausted ==
    /\ chains = EmptyBag
    /\ \A c \in DOMAIN conns : conns[c].rl = "exited"

(* this step is an explicit Connect() call *)
ConnectStep == connectCalls' # connectCalls

(* C15: once the retry chains of every slot have given up, IsConnected is  *)
(* false and stays false, and no dial is attempted or scheduled for any    *)
(* slot, until an explicit Connect() call; the call in which a chain gives *)
(* up (attempt = maxReconnectTries) dials nothing and schedules nothing.   *)
C15_NoRetryAfterGiveUp ==
    /\ [](Exhausted => ~IsConnected(conns, connections))
    /\ [][Exhausted /\ ~ConnectStep =>
            /\ Exhausted'
            /\ conns' = conns
            /\ connections' = connections]_vars
    /\ [][\A i \in Indexes :
            ReconnectAttempt(i, maxReconnectTries) =>
                /\ conns' = conns
                /\ connections' = connections
                /\ BagCardinality(chains') = BagCardinality(chains) - 1]_vars

(* both slots failed at construction and each retry chain failed all its   *)
(* dials and gave up: nothing was ever connected and nothing is scheduled  *)
C15_Witness ==
    /\ Exhausted
    /\ Len(conns) = 0
    /\ connectCalls = 0
    /\ faults = MaxFaults

(* the delay a goroutine sleeps before attempt number a: reconnectDelay    *)
(* before attempt 0, then 5, 10, 20, 40, 60 seconds after failed attempts  *)
(* 0, 1, 2, 3, 4                                                           *)
ExpectedDelay(a) == IF a = 0 THEN 5 ELSE <<5, 10, 20, 40, 60>>[a]

(* this step of reconnectConnectionWithRetry(i, a) dials *)
Dials(i, a) ==
    /\ ReconnectAttempt(i, a)
    /\ \/ Len(conns') > Len(conns)
       \/ BagCardinality(chains') = BagCardinality(chains)

(* C16: within a reconnect chain the delay scheduled after failed attempt  *)
(* k is min(5s * 2^k, 60s), i.e. 5, 10, 20, 40, 60 seconds, and the chain  *)
(* dials at most 5 times (attempts 0..4) before giving up.                 *)
C16_BackoffSchedule ==
    /\ [](\A ch \in BagToSet(chains) :
            /\ ch[2] \in 0..maxReconnectTries
            /\ ch[3] = ExpectedDelay(ch[2]))
    /\ [][\A i \in Indexes, a \in 0..(maxReconnectTries + 1) :
            Dials(i, a) => a <= 4]_vars

(* a chain has failed its fifth dial and sleeps 60 seconds before giving up *)
C16_Witness ==
    \E ch \in BagToSet(chains) : ch[2] = 5 /\ ch[3] = 60

(* the pool list is ordered by index *)
OrderedByIndex ==
    \A i, j \in 1..Len(connections) :
        i < j => conns[connections[i]].index < conns[connections[j]].index

(* C17: after any reconnect the pool list is ordered by index and holds at *)
(* most poolSize connections, also when the slot had failed during         *)
(* initialization and was never in the list.                               *)
C17_ReconnectKeepsOrder ==
    OrderedByIndex /\ Len(connections) <= PoolSize

(* the connections created by this step *)
Created == (Len(conns) + 1)..Len(conns')

(* C18: Connect succeeds however many dials fail: on return the pool list  *)
(* holds exactly the connections whose dial succeeded, in index order,     *)
(* each connected, and exactly one reconnect goroutine (attempt 0, after   *)
(* reconnectDelay) has been started for each slot whose dial failed and    *)
(* none for the others; the same holds for the Connect of the constructor. *)
C18_ConnectKeepsSuccesses ==
    /\ (/\ Len(connections) = Len(conns)
        /\ {connections[i] : i \in 1..Len(connections)} = DOMAIN conns
        /\ OrderedByIndex
        /\ \A i \in Indexes :
              CopiesIn(<<i, 0, reconnectDelay>>, chains) =
                 IF \E c \in DOMAIN conns : conns[c].index = i THEN 0 ELSE 1
        /\ BagCardinality(chains) = PoolSize - Len(conns))
    /\ [][ConnectStep =>
            /\ Len(connections') = Cardinality(Created)
            /\ {connections'[i] : i \in 1..Len(connections')} = Created
            /\ \A c \in Created : conns'[c] = NewConn(conns'[c].index)
            /\ \A i, j \in 1..Len(connections') :
                  i < j => conns'[connections'[i]].index
                              < conns'[connections'[j]].index
            /\ \A i \in Indexes :
                  CopiesIn(<<i, 0, reconnectDelay>>, chains') =
                     CopiesIn(<<i, 0, reconnectDelay>>, chains)
                     + (IF \E c \in Created : conns'[c].index = i THEN 0 ELSE 1)
            /\ BagCardinality(chains') =
                  BagCardinality(chains) + PoolSize - Cardinality(Created)]_vars

(* an explicit Connect() call in which slot 0 failed and slot 1 succeeded  *)
(* has happened on a pool that had given up: one connection in the list,   *)
(* one goroutine sleeping for slot 0                                       *)
C18_Witness ==
    /\ connectCalls = 1
    /\ Len(conns) = 1
    /\ connections = <<1>>
    /\ conns[1] = NewConn(1)
    /\ chains = SetToBag({<<0, 0, reconnectDelay>>})
    /\ faults = MaxFaults

----------------------------------------------------------------------------
(* Properties of the write path and of the matching rule, checked under    *)
(* Spec                                                                    *)

(* the call of p returns from its write section in this step *)
WriteFails(p) == pc[p] = "registered" /\ pc'[p] = "done"

C20_MatchByIdElseReplyTo ==
    \A c \in DOMAIN conns, f \in Frames :
        LET h == conns[c].messageHandlers IN
        f.id \notin DOMAIN h /\ f.replyTo \in DOMAIN h
            => HandlerID(h, f) = f.replyTo

----------------------------------------------------------------------------
(* Properties of a single call's waiter, checked under Spec                *)

(* the call of p, registered in a handler table, returns in this step *)
RegisteredReturns(p) == pc[p] \in RegisteredPcs /\ pc'[p] = "done"

(* the response channel of p receives a frame in this step *)
Filled(p) == respChan'[p] # NoFrame /\ respChan'[p] # respChan[p]

C22_WriteFailureNotReturned ==
    \A p \in Procs :
        pc[p] = "done" /\ op[p] \in {"SendAsync", "Send"}
            => ret[p] # "sendfail"

----------------------------------------------------------------------------
(* Properties of recovery, checked under SpecReconnectFair                 *)

(* the heartbeat of c gives the connection up in this step: the flag goes  *)
(* to false and nothing else changes                                       *)
PingFails(c) ==
    /\ conns[c].connected
    /\ conns' = [conns EXCEPT ![c] = MarkDisconnected(@)]

(* a reconnect goroutine for the pool index of c is started in this step *)
ReconnectStarted(c) ==
    chains' = chains (+) SetToBag({<<conns[c].index, 0, reconnectDelay>>})

(* C29: when a heartbeat ping write fails the connection is marked         *)
(* disconnected, and a reconnect for its pool index is eventually started: *)
(* the heartbeat itself starts none, but the read loop of a connection     *)
(* that is marked disconnected eventually returns, and its return starts   *)
(* the reconnect goroutine for the connection's index.                     *)
C29_PingFailureLeadsToReconnect ==
    /\ [][\A c \in DOMAIN conns :
             /\ PingFails(c) =>
                   /\ ~conns'[c].connected
                   /\ conns'[c].rl = "reading"
                   /\ chains' = chains
             /\ ReadFails(c) => ReconnectStarted(c)]_vars
    /\ \A c \in 1..MaxConns :
          (c \in DOMAIN conns /\ ~conns[c].connected /\ conns[c].rl = "reading")
             ~> (c \in DOMAIN conns /\ conns[c].rl = "exited")

(* a ping write has failed on a connection whose transport broke: the      *)
(* connection is marked disconnected, its read loop has not returned yet   *)
(* and no reconnect goroutine exists for its index                         *)
C29_Witness ==
    \E c \in DOMAIN conns :
        /\ ~conns[c].connected
        /\ conns[c].ws = "broken"
        /\ conns[c].rl = "reading"
        /\ Sleeping(conns[c].index, 0) = {}
        /\ Len(connections) = PoolSize

(* the pool list holds, for this index, a connected connection *)
SlotLive(i) ==
    \E k \in 1..Len(connections) :
        /\ conns[connections[k]].index = i
        /\ conns[connections[k]].connected

(* a reconnect goroutine for this index is within the retry budget *)
Retrying(i) ==
    \E ch \in BagToSet(chains) : ch[1] = i /\ ~GiveUp(ch[2])

(* a reconnect goroutine's dial succeeds in this step *)
DialSucceeds == Created # {} /\ ~ConnectStep

(* the fault budget is used up: from here on every dial succeeds and no    *)
(* transport fails                                                         *)
NoMoreFaults == faults = MaxFaults

(* C30: the pool heals itself with no caller running. A read loop that     *)
(* returns starts a reconnect goroutine for its index; a reconnect whose   *)
(* dial succeeds leaves the new, connected connection as the only entry of *)
(* the pool list with that index; and whenever a reconnect goroutine for   *)
(* an index is within its retry budget and the endpoint stays reachable    *)
(* from then on, the slot with that index eventually holds a connected     *)
(* connection and IsConnected() is true (up to the model's bound on the    *)
(* number of connections created).                                         *)
C30_PoolSelfHeals ==
    /\ [][\A c \in DOMAIN conns : ReadFails(c) =>
             /\ ReconnectStarted(c)
             /\ Retrying(conns[c].index)']_vars
    /\ [][DialSucceeds =>
                LET n == Len(conns')
                    i == conns'[n].index IN
                /\ conns'[n] = NewConn(i)
                /\ {k \in 1..Len(connections') :
                       conns'[connections'[k]].index = i}
                      = {FindIndex(conns', connections', i)}
                /\ connections'[FindIndex(conns', connections', i)] = n
                /\ IsConnected(conns', connections')]_vars
    /\ \A i \in Indexes :
          (Retrying(i) /\ NoMoreFaults /\ Len(conns) < MaxConns)
             ~> \/ SlotLive(i) /\ IsConnected(conns, connections)
                \/ Len(conns) = MaxConns

(* a connection was lost to a read failure and its slot holds a connected  *)
(* replacement: the first connection's read loop has returned, the pool    *)
(* list holds only the second connection, with the same index, and no      *)
(* reconnect goroutine is left for that index                              *)
C30_Witness ==
    /\ Len(conns) = 2
    /\ conns[1].rl = "exited"
    /\ conns[1].ws = "closed"
    /\ conns[2] = NewConn(conns[1].index)
    /\ connections = <<2>>
    /\ \A ch \in BagToSet(chains) : ch[1] # conns[1].index
    /\ pc = [p \in Procs |-> "idle"]

----------------------------------------------------------------------------
(* Properties of the connection locks, checked under SpecLock              *)

(* C27: a sendAndAwait call is suspended only until its own waiter is      *)
(* filled or its own timeout fires, never by another call or by a task     *)
(* that holds the connection's lock during a transport write: a call       *)
(* waiting in its select can always take its timeout branch and return.    *)
C27_OwnTimeoutAlwaysReturns ==
    \A p \in Procs :
        pc[p] = "waiting" => ENABLED AsyncSendTimeoutLocked(p)

(* C28: sends on different connections are not serialized by a shared      *)
(* lock: a call that getConnection would route to a connection whose lock  *)
(* is free can select it, whatever is being written on other connections.  *)
C28_OtherConnectionSelectable ==
    \A p \in Procs :
        LET r == getConnection(conns, connections, currentIndex) IN
        Ready(p) /\ r.conn # Nil /\ ConnMuFree(r.conn)
            => ENABLED GetConnectionLocked(p)

----------------------------------------------------------------------------
(* Properties of the middleware, checked under SpecApi                     *)

(* the caller of p's SendAsync (allocateRequest or useAllocationRequest)   *)
(* returns in this step                                                    *)
CallerReturns(p) ==
    /\ api.at[p] \in {"allocate", "use"}
    /\ pc[p] = "done" /\ pc'[p] = "idle"

Decides(p) == api.at[p] = "decide" /\ api'.at[p] # "decide"

(* C24: the interceptor aborts a monitored request only when its           *)
(* allocation call returned a reply with an error and u.connected is true  *)
(* when the interceptor reads it (status 500; it never writes 400).  A     *)
(* request that finds no live connection, and a request whose SendAsync    *)
(* returned a send error (no connection, timeout, failed write), gets      *)
(* (true, nil) from ExecuteRequestWithMetadata, and for every such request *)
(* the downstream handler runs and no error status is written.             *)
C24_AbortOnlyOnErrorReply ==
    /\ [](\A p \in Procs :
             api.at[p] = "decide" /\ (api.res[p].err \/ ~api.res[p].ok)
                => ret[p] = "errorreply" /\ api.res[p].err)
    /\ [][\A p \in Procs :
             /\ Decides(p) =>
                   /\ api'.out[p] \in {"next", "abort500"}
                   /\ api'.out[p] = "abort500" <=>
                         api.res[p].err /\ api.connected
                   /\ UNCHANGED <<conns, connections>>
             /\ api.at[p] = "idle" /\ api'.at[p] = "decide" =>
                   /\ ~IsConnected(conns, connections)
                   /\ api'.res[p] = [fn |-> "request", ok |-> TRUE, err |-> FALSE]
             /\ api.at[p] = "idle" /\ api'.at[p] = "allocate" =>
                   IsConnected(conns, connections)
             /\ api.at[p] = "allocate" /\ api'.at[p] = "decide"
                  /\ ret[p] \in SendErrors =>
                   api'.res[p] = [fn |-> "request", ok |-> TRUE, err |-> FALSE]]_vars

(* a request was aborted with status 500 after a reply with an error,      *)
(* and the other request, whose allocation call timed out, ran its handler *)
C24_Witness ==
    \E p, q \in Procs :
        /\ api.out[p] = "abort500" /\ ret[p] = "errorreply"
        /\ api.at[p] = "idle"
        /\ api.out[q] = "next" /\ ret[q] = "timeout"

(* C25: ExecuteFulfillRequestWithMetadata returns (true, nil) on every     *)
(* path (no live connection, no eventId or start time in the context, an   *)
(* empty allocation ID, a send error, a timeout, any reply), and           *)
(* ExecuteRequestWithMetadata returns (true, nil) whenever the socket is   *)
(* not connected: when isConnected() is false and when SendAsync returns   *)
(* the no-connection error.                                                *)
C25_FulfillAlwaysSucceeds ==
    /\ [](\A p \in Procs :
             api.res[p].fn = "fulfill" => api.res[p].ok /\ ~api.res[p].err)
    /\ [][\A p \in Procs :
             /\ api.at[p] \in {"fulfill", "usecheck", "use"}
                  /\ api'.at[p] = "idle" =>
                   api'.res[p] = [fn |-> "fulfill", ok |-> TRUE, err |-> FALSE]
             /\ api.at[p] = "idle" /\ api'.at[p] \in {"allocate", "decide"}
                  /\ ~IsConnected(conns, connections) =>
                   api'.res[p] = [fn |-> "request", ok |-> TRUE, err |-> FALSE]
             /\ api.at[p] = "allocate" /\ api'.at[p] = "decide"
                  /\ ret[p] = "notconnected" =>
                   api'.res[p] = [fn |-> "request", ok |-> TRUE, err |-> FALSE]]_vars

(* two calls were made, one by each caller; both are fulfill calls that    *)
(* have returned, one after a reply with an error and the other after a    *)
(* timeout                                                                 *)
C25_Witness ==
    \E p, q \in Procs :
        /\ api.ops = 2
        /\ api.res[p].fn = "fulfill" /\ api.at[p] = "idle"
        /\ op[p] = "SendAsync" /\ ret[p] = "errorreply"
        /\ api.res[q].fn = "fulfill" /\ api.at[q] = "idle"
        /\ op[q] = "SendAsync" /\ ret[q] = "timeout"

(* C26: every UsageFlowAPI instance returned by New has its config updater *)
(* started, the second and later instances of the process included.        *)
C26_EveryInstanceHasUpdater ==
    \A n \in 1..api.instances : n \in api.updaters

----------------------------------------------------------------------------
(* Properties of generateID, checked under SpecIds                         *)

(* C31: no two correlation IDs generated for calls outstanding at the same *)
(* time are equal; in particular two consecutive generateID calls return   *)
(* different IDs.                                                          *)
C31_IdsDistinct ==
    \A i, j \in 1..Len(gen.ids) : i # j => gen.ids[i] # gen.ids[j]

----------------------------------------------------------------------------
(* Properties of the handler tables and of Send, checked under Spec        *)

(* C32: each outstanding correlation ID is a key of the handler table of   *)
(* at most one connection, and that connection is the one the call that    *)
(* generated the ID selected, registered on and writes its request to.     *)
C32_IdOnItsConnection ==
    \A c \in DOMAIN conns :
        \A id \in DOMAIN conns[c].messageHandlers :
            LET p == conns[c].messageHandlers[id] IN
            /\ \A d \in DOMAIN conns \ {c} :
                  id \notin DOMAIN conns[d].messageHandlers
            /\ callId[p] = id
            /\ sel[p] = c
            /\ pc[p] \in RegisteredPcs

(* two calls are outstanding on two connections, each with its ID in the   *)
(* table of its own connection                                             *)
C32_Witness ==
    \E p, q \in Procs :
        /\ pc[p] = "waiting" /\ pc[q] = "waiting"
        /\ sel[p] # sel[q]
        /\ DOMAIN conns[sel[p]].messageHandlers = {callId[p]}
        /\ DOMAIN conns[sel[q]].messageHandlers = {callId[q]}

(* the caller p takes a step of a call of this operation *)
StepOf(p, o) ==
    /\ op'[p] = o
    /\ op[p] # o \/ pc'[p] # pc[p] \/ ret'[p] # ret[p] \/ sel'[p] # sel[p]

(* C33: Send selects its connection as SendAsync does, by getConnection,   *)
(* registers no waiter and leaves every connection's handler table and     *)
(* pendingRequests unchanged; when no connection is live it returns the    *)
(* not-connected error at once.                                            *)
C33_SendRegistersNothing ==
    [][\A p \in Procs :
          LET r == getConnection(conns, connections, currentIndex) IN
          /\ StepOf(p, "Send") =>
                /\ conns' = conns
                /\ connections' = connections
                /\ callId'[p] = NoId
                /\ Ready(p) =>
                      /\ sel'[p] = r.conn
                      /\ currentIndex' = r.currentIndex
                      /\ NoLiveConnection =>
                            pc'[p] = "done" /\ ret'[p] = "notconnected"
          /\ StepOf(p, "SendAsync") /\ Ready(p) =>
                /\ sel'[p] = r.conn
                /\ currentIndex' = r.currentIndex]_vars

(* a Send call has written its message on a connection on which the other  *)
(* caller's SendAsync is waiting: the table holds that call's entry only   *)
(* and pendingRequests is 1                                                *)
C33_Witness ==
    \E p, q \in Procs :
        /\ op[p] = "Send" /\ pc[p] = "done" /\ ret[p] = "ok"
        /\ pc[q] = "waiting"
        /\ Len(connections) = 1
        /\ conns[sel[q]].connected
        /\ DOMAIN conns[sel[q]].messageHandlers = {callId[q]}
        /\ conns[sel[q]].pendingRequests = 1

-----------------------------------------------------------------------------
(* Properties of the locking, checked under SpecOrder                      *)

(* C34: the mutexes are acquired in one order, m.connectionMutex before    *)
(* m.mu before conn.mu: a goroutine that calls Lock or RLock holds only    *)
(* mutexes earlier in that order.  No state is a deadlock: every goroutine *)
(* waiting for a mutex waits, directly or through other waiting            *)
(* goroutines, only for goroutines that can make their next call.          *)
C34_LockOrderNoDeadlock ==
    /\ \A t \in Threads :
          Wants(t, "Lock") \/ Wants(t, "RLock") =>
              \A h \in Held(t) : Rank(h) < Rank(NextCall(t)[2])
    /\ CanRun(NumThreads) = Threads

(* a reconnect or Connect holding m.connectionMutex waits for m.mu, which  *)
(* a reader holds that waits for conn.mu of connection 0, which a sender   *)
(* holds during its write                                                  *)
C34_Witness ==
    \E t, u, v \in Threads :
        /\ SetupMu \in Held(t) /\ Wants(t, "Lock") /\ NextCall(t)[2] = PoolMu
        /\ PoolMu \in HeldR(u) /\ Wants(u, "Lock")
        /\ NextCall(u)[2] = ConnMu(0)
        /\ ConnMu(0) \in HeldW(v) /\ Writing(v, 0)

(* C35: at most one goroutine is inside ws.WriteMessage on the transport   *)
(* of a connection: pings and the frames of asyncSend/Send on the same     *)
(* connection exclude each other.                                          *)
C35_OneWriterPerTransport ==
    \A i \in Indexes : Cardinality({t \in Threads : Writing(t, i)}) <= 1

-----------------------------------------------------------------------------
(* Properties of the reconnect goroutines, checked under SpecReconnect     *)

(* a sleeping reconnect goroutine wakes up and runs its attempt *)
AttemptRuns ==
    \E ch \in BagToSet(chains) : CopiesIn(ch, chains') < CopiesIn(ch, chains)

(* C36: a reconnect attempt tears down only a connection that is already   *)
(* disconnected: no step in which a reconnect goroutine runs closes the    *)
(* transport, or clears the handler table, of a connection that was        *)
(* connected before the step.                                              *)
C36_TeardownOnlyDisconnected ==
    [][AttemptRuns =>
          \A c \in DOMAIN conns :
              conns[c].connected =>
                  /\ conns'[c].ws # "closed"
                  /\ conns'[c].messageHandlers = conns[c].messageHandlers]_vars

(* the reconnect goroutines sleeping for pool index i *)
ChainsOf(i) == {ch \in BagToSet(chains) : ch[1] = i}

(* C37: at most one reconnect chain exists per pool index. *)
C37_OneChainPerIndex ==
    \A i \in Indexes :
        /\ Cardinality(ChainsOf(i)) <= 1
        /\ \A ch \in ChainsOf(i) : CopiesIn(ch, chains) = 1

-----------------------------------------------------------------------------
(* Further properties of SendAsync, checked under Spec                     *)

(* the SendAsync call of p returns the not-connected error in this step *)
ReturnsNotConnected(p) ==
    /\ pc[p] # "done" /\ pc'[p] = "done"
    /\ op'[p] = "SendAsync"
    /\ ret'[p] = "notconnected"

(* C38: a SendAsync call fails with the not-connected error only if no     *)
(* connection of the pool is connected, also when the connection it        *)
(* selected was disconnected between the selection and the registration.   *)
C38_NotConnectedOnlyWithoutLive ==
    [][\A p \in Procs : ReturnsNotConnected(p) => Live = {}]_vars

(* C39: on every connection pendingRequests is non-negative and equals the *)
(* number of SendAsync calls that have registered on it and not yet run    *)
(* their cleanup - 0 when no call is in progress on it - also after the    *)
(* handler table was cleared by a disconnect or the connection was         *)
(* replaced in the pool.                                                   *)
C39_PendingIsCallsInProgress ==
    \A c \in DOMAIN conns :
        /\ conns[c].pendingRequests >= 0
        /\ conns[c].pendingRequests = Cardinality(RegisteredOn(c))

(* a call is still registered on a connection whose table was cleared and  *)
(* which a reconnect has replaced in the pool; the other caller has        *)
(* finished a call                                                         *)
C39_Witness ==
    \E c \in DOMAIN conns, p, q \in Procs :
        /\ \A i \in 1..Len(connections) : connections[i] # c
        /\ \E i \in 1..Len(connections) :
              conns[connections[i]].index = conns[c].index
        /\ conns[c].messageHandlers = EmptyMap
        /\ p \in RegisteredOn(c)
        /\ pc[q] = "done" /\ op[q] = "SendAsync" /\ ret[q] \in {"ok", "timeout"}

(* the pool list as a list of indexes *)
PoolIndexes == [i \in 1..Len(connections) |-> conns[connections[i]].index]

(* C40: the pool list never holds two connections with the same index,     *)
(* every index in it is in [0, poolSize), and it has at most poolSize      *)
(* entries, whatever the interleaving of Connect, reconnect attempts and   *)
(* Close.                                                                  *)
C40_PoolWellFormed ==
    /\ Len(connections) <= PoolSize
    /\ \A i \in 1..Len(connections) : PoolIndexes[i] \in Indexes
    /\ \A i, j \in 1..Len(connections) :
          i # j => PoolIndexes[i] # PoolIndexes[j]

(* a reconnect attempt has put a new connection in the place of the one it *)
(* tore down                                                               *)
C40_Witness ==
    \E i \in 1..Len(connections), d \in DOMAIN conns :
        /\ d < connections[i]
        /\ conns[d].index = PoolIndexes[i]
        /\ conns[d].ws = "closed"
        /\ conns[connections[i]].connected

====
